---- MODULE Spec2Model ----
(***************************************************************************)
(* Squirrel v1.3: the screenshot pool (screenshot/screenshot.go), the      *)
(* prober (checker/checker.go) and the pipeline of main.                    *)
(*                                                                         *)
(* PoolSpec   the screenshot pool driven by callers of Submit, its workers *)
(*            and the two callers of Stop (main and the signal handler).   *)
(* ProbeSpec  a run with any configuration up to main's call of Stop: main *)
(*            feeding the domains, the probe workers running CheckDomain   *)
(*            and submitting to the pool, the pool, the signal handler.    *)
(* RunSpec    a whole run with a screenshot mode that completes normally:  *)
(*            no signal arrives and no goroutine panics.                   *)
(* CrashSpec  ProbeSpec with a screenshot mode, in which any goroutine may *)
(*            panic.                                                       *)
(* StatusSpec one probe worker running CheckDomain on every input list,    *)
(*            with responses of many status codes.                         *)
(* Spec       a whole run without a screenshot mode: probe workers, the    *)
(*            batching goroutine, the aggregator goroutine, the progress   *)
(*            reporter and main up to its hand-off to the formatters.      *)
(* FairRunSpec RunSpec with every goroutine scheduled fairly.              *)
(* FanOutSpec Spec for every number of probe workers from 0 on.            *)
(* UnitSpec   functions called on their own: the deduplication of the      *)
(*            input list, calculateOptimalScreenshotConcurrency,           *)
(*            calculateTimeout, the retry loop of a screenshot worker,     *)
(*            main's start-up, detectPageType and the browser sessions of  *)
(*            the screenshot workers.                                      *)
(* BatchingSpec a whole run without a screenshot mode for every number of  *)
(*            domains from 0 to MaxTotal, with one probe worker.           *)
(***************************************************************************)
EXTENDS Integers, Sequences, FiniteSets, TLC

\* ------------------------------------------------------------------ bounds
\* cfg.Concurrency: the number of probe workers under Spec.
Concurrency == 2
\* cfg.Concurrency under ProbeSpec.
ProbeConcurrency == 1
\* The number of input domains, after deduplication.
NumDomains == 2
\* The number of goroutines that call Submit under PoolSpec.
Callers == 1
\* p.workers: the number of screenshot workers.
Workers == 1
\* Submit calls made in all under PoolSpec.
MaxSubmits == 4
\* The longest input list of domains.
MaxEntries == 3
\* The largest concurrency calculateTimeout is called with.
MaxConcurrency == 60
\* The largest number of domains under BatchingSpec.
MaxTotal == 11

\* ------------------------------------------------------- program constants
QueueMultiplier == 2
ReplyCap == 1
maxRetries == 3

batchSize == 10

ShotWorkers == 1..Workers
Stoppers == {"main", "signal"}
Domains == 1..NumDomains

\* make(chan ScreenshotTask, workers*2)
QueueCap == Workers * QueueMultiplier

\* The screenshot path filepath.Join(task.Dir, task.Filename), and the empty
\* string sent on failure.
Path == "path"
Empty == ""

VARIABLES
  \* ---- ScreenshotPool
  closed,        \* p.closed
  tasks,         \* p.tasks: the buffered tasks, oldest first
  tasksClosed,   \* close(p.tasks) has been executed
  mutex,         \* p.mutex: "free" or the Stop caller holding the write lock
  totalCount, successCount, failureCount,
  \* ---- screenshot workers
  wpc,           \* position of each worker goroutine
  wtask,         \* the task a worker is handling
  \* ---- callers of Submit
  ppc,           \* position of each caller
  ptask,         \* the task of the caller's current Submit call
  calls,         \* Submit calls begun so far, by all callers
  pcont,         \* where the caller continues when Submit has returned
  \* ---- per task
  reply,         \* the task's result channel (capacity 1): values buffered
  writes,        \* number of sends executed on the result channel
  writers,       \* who sent on the result channel
  fut,           \* what Submit returned to the caller: "none", "chan", "nil"
  outcome,       \* how Submit ended: "none", "closed", "timeout", "panic", "queued"
  handled,       \* number of times a worker dequeued the task
  \* ---- callers of Stop
  stpc,          \* position of each Stop call
  closeCount,    \* number of close(p.tasks) executions
  atClose,       \* the number of tasks buffered when p.tasks was closed
  panics,        \* panics that were not recovered
  \* ---- main: configuration and channels
  cfgScreenshot,      \* cfg.Screenshot
  cfgScreenshotAlive, \* cfg.ScreenshotAlive
  cfgExtractInfo,     \* cfg.ExtractInfo
  qualified,     \* per domain: the input starts with http:// or https://
  call,          \* a function called on its own: its name, arguments and return value
  mpc,           \* position of main
  sent,          \* domains main has sent on domainChan
  domainChan, domainClosed,
  resultChan, resultClosed,
  resultBatchChan, batchClosed,
  doneClosed,    \* close(doneChan) has been executed
  exited,        \* the process has ended other than by main's return
  cleanups,      \* who has run cleanupChromeProcesses
  \* ---- probe workers (CheckDomain)
  pdom,          \* the domain a probe worker is checking
  pres,          \* the Result being built
  requests,      \* per domain: the schemes requested, in order
  emitted,       \* per domain: the Results sent on resultChan
  \* ---- batching goroutine
  bpc, resultBatch, processed,
  \* ---- aggregator goroutine
  apc, curBatch,
  alive, dead, screenshotCount, pageTypeCount, allResults,
  \* ---- progress reporter
  progressDone,  \* close(progressDone) has been executed
  \* ---- what main read
  summary,       \* the counters PrintSummary was called with
  handedOff      \* allResults as the formatters were called with

poolVars == <<closed, tasks, tasksClosed, mutex, totalCount, successCount, failureCount>>
workerVars == <<wpc, wtask>>
callerVars == <<ppc, ptask, calls, pcont>>
taskVars == <<reply, writes, writers, fut, outcome, handled>>
stopVars == <<stpc, closeCount, atClose, panics>>
mainVars == <<cfgScreenshot, cfgScreenshotAlive, cfgExtractInfo, qualified, call, mpc, sent,
              domainChan,
              domainClosed, resultChan, resultClosed, resultBatchChan, batchClosed,
              doneClosed, exited, cleanups, summary, handedOff>>
probeVars == <<pdom, pres, requests, emitted>>
batchVars == <<bpc, resultBatch, processed>>
aggVars == <<apc, curBatch, alive, dead, screenshotCount, pageTypeCount, allResults>>
pipeVars == <<mainVars, probeVars, batchVars, aggVars, progressDone>>
vars == <<poolVars, workerVars, callerVars, taskVars, stopVars, pipeVars>>

\* The goroutines that call Submit, and the tasks.
Probers == DOMAIN ppc
Tasks == DOMAIN reply

\* totalDomains := len(domains): the length of the input list after the
\* removal of duplicates.
TotalDomains == Len(qualified)

\* ---------------------------------------------------------------- helpers
\* resourceMonitor.CanStartTask
CanStartTask == TRUE

\* The value a recovered panic makes Submit return: the function has no named
\* result, so the zero value of <-chan string.
SubmitPanicReturn == "nil"

\* --------------------------------------------------------------------- Init
\* NewScreenshotPool and Start; without a screenshot mode main creates no
\* pool, starts no worker and installs no signal handler.
InitPool(T, started) ==
  /\ closed = FALSE
  /\ tasks = <<>>
  /\ tasksClosed = FALSE
  /\ mutex = "free"
  /\ totalCount = 0
  /\ successCount = 0
  /\ failureCount = 0
  /\ wpc = [w \in ShotWorkers |-> IF started THEN "recv" ELSE "none"]
  /\ wtask = [w \in ShotWorkers |-> 0]
  /\ reply = [t \in T |-> <<>>]
  /\ writes = [t \in T |-> 0]
  /\ writers = [t \in T |-> {}]
  /\ fut = [t \in T |-> "none"]
  /\ outcome = [t \in T |-> "none"]
  /\ handled = [t \in T |-> 0]
  /\ stpc = [s \in Stoppers |-> IF started THEN "idle" ELSE "none"]
  /\ closeCount = 0
  /\ atClose = 0
  /\ panics = {}

InitCallers(P) ==
  /\ ppc = [c \in P |-> "loop"]
  /\ ptask = [c \in P |-> 0]
  /\ pcont = [c \in P |-> "loop"]
  /\ calls = 0

\* ------------------------------------------------------ ScreenshotPool.Start
\* ch <- v on a task's result channel: the value is buffered when the channel
\* has room; otherwise the sender blocks.
HasRoom(t) == Len(reply[t]) < ReplyCap

SendResult(t, v, who) ==
  /\ reply' = [reply EXCEPT ![t] = Append(@, v)]
  /\ writes' = [writes EXCEPT ![t] = @ + 1]
  /\ writers' = [writers EXCEPT ![t] = @ \cup {who}]

\* for task := range p.tasks: a task is dequeued; totalCount is incremented;
\* if !resourceMonitor.CanStartTask() the task is failed at once.
WorkerRecv(w) ==
  /\ wpc[w] = "recv"
  /\ tasks # <<>>
  /\ LET t == Head(tasks) IN
       /\ tasks' = Tail(tasks)
       /\ totalCount' = totalCount + 1
       /\ handled' = [handled EXCEPT ![t] = @ + 1]
       /\ IF ~CanStartTask
            THEN /\ failureCount' = failureCount + 1
                 /\ IF HasRoom(t)
                      THEN /\ SendResult(t, Empty, "worker")
                           /\ UNCHANGED <<wpc, wtask>>
                      ELSE /\ wpc' = [wpc EXCEPT ![w] = "blocked"]
                           /\ wtask' = [wtask EXCEPT ![w] = t]
                           /\ UNCHANGED <<reply, writes, writers>>
            ELSE /\ wpc' = [wpc EXCEPT ![w] = "attempt"]
                 /\ wtask' = [wtask EXCEPT ![w] = t]
                 /\ UNCHANGED <<failureCount, reply, writes, writers>>
  /\ UNCHANGED <<closed, tasksClosed, mutex, successCount>>
  /\ UNCHANGED <<callerVars, stopVars, fut, outcome>>
  /\ UNCHANGED pipeVars

\* range over a channel ends when the channel is closed and drained.
RangeEndsOnClose == tasksClosed

RangeEnds == tasks = <<>> /\ tasksClosed

\* The range loop ends; the deferred p.wg.Done() runs.
WorkerExit(w) ==
  /\ wpc[w] = "recv"
  /\ RangeEnds
  /\ wpc' = [wpc EXCEPT ![w] = "done"]
  /\ UNCHANGED <<poolVars, wtask, callerVars, taskVars, stopVars>>
  /\ UNCHANGED pipeVars

\* for retry := 0; retry <= maxRetries && !success; retry++
LoopCondNoSuccessCheck(r, success) == r <= maxRetries

LoopCond(r, success) == r <= maxRetries /\ ~success

\* What TakeScreenshotIndependent returns: "ok" (nil), "neterr" (an error
\* whose text names one of the four net::ERR codes) or "hard" (another error).
Outcomes == {"ok", "neterr", "hard"}

\* The outcome sequences drawn for the attempts on one task: the attempts
\* all return last, or all but the final one fail with another error and the
\* final one returns last.
AttemptRuns ==
  {[i \in 1..(maxRetries + 1) |-> IF i <= k THEN "hard" ELSE last] :
     k \in {0, maxRetries}, last \in Outcomes}

\* The account of a retry loop before its first iteration: the values sent
\* on task.Result, the increments of successCount and failureCount, the
\* attempts made, whether a send found the channel full, and the times slept
\* before the retries, in ms.
NoRun ==
  [sends |-> <<>>, ok |-> 0, failed |-> 0, attempts |-> 0, blocked |-> FALSE, waits |-> <<>>]

\* The retry loop from iteration r on. outs[r + 1] is what the attempt of
\* iteration r returns, room the free capacity of task.Result, acc the
\* account of the iterations before r. A counter is incremented before the
\* send that follows it; at a send that finds the channel full the loop
\* stands.
RECURSIVE RetryLoop(_, _, _, _, _)
RetryLoop(r, success, outs, room, acc) ==
  IF ~LoopCond(r, success)
    THEN acc
    ELSE LET res == outs[r + 1]
             good == res = "ok" \/ (r = maxRetries /\ res = "neterr")
             last == ~good /\ r = maxRetries
             sending == good \/ last
             counted == [acc EXCEPT !.ok = IF good THEN @ + 1 ELSE @,
                                    !.failed = IF last THEN @ + 1 ELSE @,
                                    !.attempts = @ + 1,
                                    !.waits = IF r > 0 THEN Append(@, r * 500) ELSE @]
         IN IF sending /\ room = 0
              THEN [counted EXCEPT !.blocked = TRUE]
              ELSE RetryLoop(r + 1, success \/ good, outs,
                             IF sending THEN room - 1 ELSE room,
                             IF sending
                               THEN [counted EXCEPT !.sends =
                                       Append(@, IF good THEN Path ELSE Empty)]
                               ELSE counted)

\* The worker runs the retry loop for the task it dequeued. The loop sends on
\* task.Result when an attempt succeeded or the last one failed.
WorkerAttempt(w, outs) ==
  /\ wpc[w] = "attempt"
  /\ LET t == wtask[w]
         run == RetryLoop(0, FALSE, outs, ReplyCap - Len(reply[t]), NoRun)
     IN /\ successCount' = successCount + run.ok
        /\ failureCount' = failureCount + run.failed
        /\ reply' = [reply EXCEPT ![t] = @ \o run.sends]
        /\ writes' = [writes EXCEPT ![t] = @ + Len(run.sends)]
        /\ writers' = [writers EXCEPT ![t] = IF run.sends = <<>> THEN @ ELSE @ \cup {"worker"}]
        /\ IF run.blocked
             THEN /\ wpc' = [wpc EXCEPT ![w] = "blocked"]
                  /\ UNCHANGED wtask
             ELSE /\ wpc' = [wpc EXCEPT ![w] = "recv"]
                  /\ wtask' = [wtask EXCEPT ![w] = 0]
  /\ UNCHANGED <<closed, tasks, tasksClosed, mutex, totalCount>>
  /\ UNCHANGED <<callerVars, stopVars, fut, outcome, handled>>
  /\ UNCHANGED pipeVars

\* ----------------------------------------------------- ScreenshotPool.Submit
\* Where a caller goes when Submit has returned.
AfterSubmit(c) == pcont[c]

\* Submit ends without queueing the task: result <- "" and return. ret is the
\* value returned, how is the way the call ended.
SubmitAbandonNoReply(c, how, ret) ==
  LET t == ptask[c] IN
    /\ outcome' = [outcome EXCEPT ![t] = how]
    /\ fut' = [fut EXCEPT ![t] = ret]
    /\ ppc' = [ppc EXCEPT ![c] = pcont[c]]
    /\ ptask' = [ptask EXCEPT ![c] = 0]
    /\ UNCHANGED <<reply, writes, writers>>

SubmitAbandon(c, how, ret) ==
  LET t == ptask[c] IN
    /\ outcome' = [outcome EXCEPT ![t] = how]
    /\ IF HasRoom(t)
         THEN /\ SendResult(t, Empty, "submit")
              /\ fut' = [fut EXCEPT ![t] = ret]
              /\ ppc' = [ppc EXCEPT ![c] = AfterSubmit(c)]
              /\ ptask' = [ptask EXCEPT ![c] = 0]
         ELSE /\ ppc' = [ppc EXCEPT ![c] = "blocked"]
              /\ UNCHANGED <<reply, writes, writers, fut, ptask>>

\* if p.closed, read under the read lock.
SeesClosedNever == FALSE

SeesClosed == closed

\* Submit is entered for task t: result := make(chan string, 1);
\* p.mutex.RLock(); if p.closed { ...; result <- ""; return result };
\* p.mutex.RUnlock(). The read lock waits for a writer to unlock.
SubmitCheckClosed(c, t) ==
  /\ mutex = "free"
  /\ IF SeesClosed
       THEN /\ outcome' = [outcome EXCEPT ![t] = "closed"]
            /\ IF HasRoom(t)
                 THEN /\ SendResult(t, Empty, "submit")
                      /\ fut' = [fut EXCEPT ![t] = "chan"]
                      /\ ppc' = [ppc EXCEPT ![c] = AfterSubmit(c)]
                      /\ UNCHANGED ptask
                 ELSE /\ ppc' = [ppc EXCEPT ![c] = "blocked"]
                      /\ ptask' = [ptask EXCEPT ![c] = t]
                      /\ UNCHANGED <<reply, writes, writers, fut>>
       ELSE /\ ppc' = [ppc EXCEPT ![c] = "sub_select"]
            /\ ptask' = [ptask EXCEPT ![c] = t]
            /\ UNCHANGED <<reply, writes, writers, fut, outcome>>

\* The guards of the three ways the select statement ends.
CanSend == ~tasksClosed /\ Len(tasks) < QueueCap
\* Variant: the select has no time.After case.
CanTimeoutNever == FALSE
\* time.After(1 * time.Second) fires only while the send is still blocked,
\* that is while the queue is full.
CanTimeout == ~tasksClosed /\ Len(tasks) >= QueueCap
\* A send on a closed channel panics, also for a sender already blocked.
CanPanic == tasksClosed

\* case p.tasks <- task: the task is buffered and Submit returns result.
SubmitSend(c) ==
  /\ ppc[c] = "sub_select"
  /\ CanSend
  /\ tasks' = Append(tasks, ptask[c])
  /\ outcome' = [outcome EXCEPT ![ptask[c]] = "queued"]
  /\ fut' = [fut EXCEPT ![ptask[c]] = "chan"]
  /\ ppc' = [ppc EXCEPT ![c] = AfterSubmit(c)]
  /\ ptask' = [ptask EXCEPT ![c] = 0]
  /\ UNCHANGED <<closed, tasksClosed, mutex, totalCount, successCount, failureCount>>
  /\ UNCHANGED <<workerVars, stopVars, calls, pcont>>
  /\ UNCHANGED <<reply, writes, writers, handled>>
  /\ UNCHANGED pipeVars

\* case <-time.After(1 * time.Second): the task is dropped; result <- "".
SubmitTimeout(c) ==
  /\ ppc[c] = "sub_select"
  /\ CanTimeout
  /\ SubmitAbandon(c, "timeout", "chan")
  /\ UNCHANGED <<poolVars, workerVars, stopVars, calls, pcont, handled>>
  /\ UNCHANGED pipeVars

\* The send panics; the deferred function recovers and sends result <- "".
\* Submit then returns the zero value of its unnamed result.
SubmitPanic(c) ==
  /\ ppc[c] = "sub_select"
  /\ CanPanic
  /\ SubmitAbandon(c, "panic", SubmitPanicReturn)
  /\ UNCHANGED <<poolVars, workerVars, stopVars, calls, pcont, handled>>
  /\ UNCHANGED pipeVars

\* A caller makes its next Submit call (PoolSpec).
CallSubmit(c) ==
  /\ ppc[c] = "loop"
  /\ calls < MaxSubmits
  /\ calls' = calls + 1
  /\ SubmitCheckClosed(c, calls + 1)
  /\ UNCHANGED <<poolVars, workerVars, stopVars, handled, pcont>>
  /\ UNCHANGED pipeVars

\* The caller has no more work and is not inside Submit: its probe worker
\* has returned (wg.Done).
CallerDone(c) == ppc[c] = "loop" /\ calls = MaxSubmits

\* ------------------------------------------------------- ScreenshotPool.Stop
\* main calls Stop after wg.Wait(), the signal handler whenever a signal
\* arrives.
MayStop(s) == s = "signal" \/ mpc = "stop"

\* p.mutex.Lock()
StopLock(s) ==
  /\ stpc[s] = "idle"
  /\ MayStop(s)
  /\ mutex = "free"
  /\ mutex' = s
  /\ stpc' = [stpc EXCEPT ![s] = "locked"]
  /\ UNCHANGED <<closed, tasks, tasksClosed, totalCount, successCount, failureCount>>
  /\ UNCHANGED <<workerVars, callerVars, taskVars, closeCount, atClose, panics>>
  /\ UNCHANGED pipeVars

\* if !p.closed
StopMustCloseAlways == TRUE

StopMustClose == ~closed

\* if !p.closed { p.closed = true; close(p.tasks) }; p.mutex.Unlock()
\* Closing a closed channel panics.
StopClose(s) ==
  /\ stpc[s] = "locked"
  /\ IF StopMustClose
       THEN /\ closed' = TRUE
            /\ closeCount' = closeCount + 1
            /\ IF tasksClosed
                 THEN /\ panics' = panics \cup {s}
                      /\ stpc' = [stpc EXCEPT ![s] = "panicked"]
                      /\ UNCHANGED <<tasksClosed, mutex, atClose>>
                 ELSE /\ tasksClosed' = TRUE
                      /\ atClose' = Len(tasks)
                      /\ mutex' = "free"
                      /\ stpc' = [stpc EXCEPT ![s] = "wait"]
                      /\ UNCHANGED panics
       ELSE /\ mutex' = "free"
            /\ stpc' = [stpc EXCEPT ![s] = "wait"]
            /\ UNCHANGED <<closed, tasksClosed, closeCount, atClose, panics>>
  /\ UNCHANGED <<tasks, totalCount, successCount, failureCount>>
  /\ UNCHANGED <<workerVars, callerVars, taskVars>>
  /\ UNCHANGED pipeVars

\* p.wg.Wait(): returns when every worker has called wg.Done.
StopWait(s) ==
  /\ stpc[s] = "wait"
  /\ \A w \in ShotWorkers : wpc[w] = "done"
  /\ stpc' = [stpc EXCEPT ![s] = "returned"]
  /\ UNCHANGED <<poolVars, workerVars, callerVars, taskVars, closeCount, atClose, panics>>
  /\ UNCHANGED pipeVars

\* ------------------------------------------------------------------ PoolSpec
\* Under PoolSpec main only waits for the callers (wg.Wait) and calls Stop.
PoolWgWait ==
  /\ mpc = "wgwait"
  /\ \A c \in Probers : CallerDone(c)
  /\ mpc' = "stop"
  /\ UNCHANGED <<poolVars, workerVars, callerVars, taskVars, stopVars>>
  /\ UNCHANGED <<cfgScreenshot, cfgScreenshotAlive, cfgExtractInfo, qualified, call, sent, domainChan,
                 domainClosed, resultChan, resultClosed, resultBatchChan, batchClosed,
                 doneClosed, exited, cleanups, summary, handedOff>>
  /\ UNCHANGED <<probeVars, batchVars, aggVars, progressDone>>

\* The pipeline stands still under PoolSpec.
InitIdlePipeline ==
  /\ cfgScreenshot = TRUE
  /\ cfgScreenshotAlive = FALSE
  /\ cfgExtractInfo = FALSE
  /\ qualified = <<>>
  /\ mpc = "wgwait"
  /\ sent = 0
  /\ domainChan = <<>>
  /\ domainClosed = TRUE
  /\ resultChan = <<>>
  /\ resultClosed = FALSE
  /\ resultBatchChan = <<>>
  /\ batchClosed = FALSE
  /\ doneClosed = FALSE
  /\ exited = FALSE
  /\ cleanups = {}
  /\ pdom = <<>>
  /\ pres = <<>>
  /\ requests = <<>>
  /\ emitted = <<>>
  /\ bpc = "recv"
  /\ resultBatch = <<>>
  /\ processed = 0
  /\ apc = "recv"
  /\ curBatch = <<>>
  /\ alive = 0
  /\ dead = 0
  /\ screenshotCount = 0
  /\ pageTypeCount = 0
  /\ allResults = <<>>
  /\ progressDone = FALSE
  /\ summary = <<>>
  /\ handedOff = <<>>

\* No function is called on its own.
NoCall == <<>>

PoolInit ==
  InitPool(1..MaxSubmits, TRUE) /\ InitCallers(1..Callers) /\ InitIdlePipeline /\ call = NoCall

PoolNext ==
  \/ PoolWgWait
  \/ \E w \in ShotWorkers : WorkerRecv(w)
  \/ \E w \in ShotWorkers : WorkerExit(w)
  \/ \E w \in ShotWorkers, outs \in AttemptRuns : WorkerAttempt(w, outs)
  \/ \E c \in Probers : CallSubmit(c)
  \/ \E c \in Probers : SubmitSend(c)
  \/ \E c \in Probers : SubmitTimeout(c)
  \/ \E c \in Probers : SubmitPanic(c)
  \/ \E s \in Stoppers : StopLock(s)
  \/ \E s \in Stoppers : StopClose(s)
  \/ \E s \in Stoppers : StopWait(s)

PoolSpec == PoolInit /\ [][PoolNext]_vars

\* ================================================================= pipeline
\* ------------------------------------------------------ checker.CheckDomain
\* getStatusTextAndAlive with its last case taken at statusCode <= 400.
getStatusTextAndAliveLoose(statusCode) ==
  CASE statusCode = 200 -> <<"Alive", TRUE>>
    [] statusCode = 301 \/ statusCode = 302 -> <<"Redirect", TRUE>>
    [] statusCode = 403 -> <<"Forbidden", FALSE>>
    [] statusCode = 404 -> <<"NotFound", FALSE>>
    [] statusCode = 500 -> <<"ServerError", FALSE>>
    [] statusCode = 502 -> <<"GatewayError", FALSE>>
    [] statusCode = 503 -> <<"Unavailable", FALSE>>
    [] OTHER -> IF statusCode <= 400 THEN <<"Alive", TRUE>> ELSE <<"Unreachable", FALSE>>

\* getStatusTextAndAlive: the status text (named as the specification names
\* the classifications) and the alive flag of a status code.
getStatusTextAndAlive(statusCode) ==
  CASE statusCode = 200 -> <<"Alive", TRUE>>
    [] statusCode = 301 \/ statusCode = 302 -> <<"Redirect", TRUE>>
    [] statusCode = 403 -> <<"Forbidden", FALSE>>
    [] statusCode = 404 -> <<"NotFound", FALSE>>
    [] statusCode = 500 -> <<"ServerError", FALSE>>
    [] statusCode = 502 -> <<"GatewayError", FALSE>>
    [] statusCode = 503 -> <<"Unavailable", FALSE>>
    [] OTHER -> IF statusCode < 400 THEN <<"Alive", TRUE>> ELSE <<"Unreachable", FALSE>>

\* What client.Get yields: 0 stands for a transport error (err != nil), any
\* other value is the status code of the response.
HttpOutcomes == {0, 200, 404}

\* screenshotPool != nil
PoolExists == cfgScreenshot \/ cfgScreenshotAlive

\* The task of the screenshot of domain d under the given scheme.
TaskId(d, url) == 2 * (d - 1) + (IF url = "https" THEN 1 ELSE 2)

NoResult == [dom |-> 0, url |-> "", status |-> 0, text |-> "", alive |-> FALSE,
             msg |-> "", page |-> FALSE, shot |-> FALSE]

\* err.Error() of the *url.Error that client.Get returns: the operation, the
\* quoted URL and the text of the underlying error.
ErrorTextDropped(url) == ""

ErrorText(url) == "Get " \o url \o ": error"

\* http.StatusText(code): the reason phrase of a registered code, else "".
StatusText(code) ==
  CASE code = 200 -> "OK"
    [] code = 204 -> "No Content"
    [] code = 301 -> "Moved Permanently"
    [] code = 302 -> "Found"
    [] code = 304 -> "Not Modified"
    [] code = 400 -> "Bad Request"
    [] code = 401 -> "Unauthorized"
    [] code = 403 -> "Forbidden"
    [] code = 404 -> "Not Found"
    [] code = 500 -> "Internal Server Error"
    [] code = 502 -> "Bad Gateway"
    [] code = 503 -> "Service Unavailable"
    [] OTHER -> ""

\* Result.Alive: false as the Result is created, and set from the status code
\* only when client.Get returned a response.
AliveOfIgnoresError(r) == getStatusTextAndAlive(r)[2]

AliveOf(r) == IF r = 0 THEN FALSE ELSE getStatusTextAndAlive(r)[2]

\* Result{Domain, Status, StatusText, Alive, Message, PageInfo != nil,
\* Screenshot != ""} of a
\* request that ended with outcome r; body tells whether io.ReadAll read the
\* body, shot whether a screenshot path is pre-assigned. PageInfo is set
\* if cfg.ExtractInfo && resp.StatusCode < 400 and the body was read.
MakeResult(d, url, r, body, shot) ==
  [dom |-> d, url |-> url, status |-> r,
   text |-> IF r = 0 THEN "Unreachable" ELSE getStatusTextAndAlive(r)[1],
   alive |-> AliveOf(r),
   msg |-> IF r = 0 THEN ErrorText(url) ELSE StatusText(r),
   page |-> r # 0 /\ cfgExtractInfo /\ r < 400 /\ body,
   shot |-> shot]

\* if (cfg.Screenshot || (cfg.ScreenshotAlive && result.Alive)) && screenshotPool != nil,
\* after a response; if cfg.Screenshot && screenshotPool != nil, after a
\* transport error.
WantsScreenshotAnyStatus(r) == PoolExists

WantsScreenshot(r) ==
  IF r = 0
    THEN cfgScreenshot /\ PoolExists
    ELSE (cfgScreenshot \/ (cfgScreenshotAlive /\ getStatusTextAndAlive(r)[2])) /\ PoolExists

\* if strings.HasPrefix(domain, "http://") || strings.HasPrefix(domain, "https://")
\* { checkSingleDomain(domain, ...); return }: where CheckDomain starts.
FirstStepAlwaysHttps(d) == "https"

FirstStep(d) == IF qualified[d] THEN "single" ELSE "https"

\* for domain := range domainChan { checker.CheckDomain(domain, ...) }
ProbeTake(c) ==
  /\ ppc[c] = "loop"
  /\ domainChan # <<>>
  /\ domainChan' = Tail(domainChan)
  /\ pdom' = [pdom EXCEPT ![c] = Head(domainChan)]
  /\ ppc' = [ppc EXCEPT ![c] = FirstStep(Head(domainChan))]
  /\ UNCHANGED <<poolVars, workerVars, taskVars, stopVars, ptask, calls, pcont>>
  /\ UNCHANGED <<cfgScreenshot, cfgScreenshotAlive, cfgExtractInfo, qualified, call, mpc, sent, domainClosed,
                 resultChan, resultClosed, resultBatchChan, batchClosed, doneClosed,
                 exited, cleanups, summary, handedOff>>
  /\ UNCHANGED <<pres, requests, emitted, batchVars, aggVars, progressDone>>

\* The range over domainChan ends; the deferred wg.Done() runs.
ProbeExit(c) ==
  /\ ppc[c] = "loop"
  /\ domainChan = <<>>
  /\ domainClosed
  /\ ppc' = [ppc EXCEPT ![c] = "done"]
  /\ UNCHANGED <<poolVars, workerVars, taskVars, stopVars, ptask, calls, pcont, pipeVars>>

\* One request of CheckDomain or checkSingleDomain for scheme url, with
\* outcome r. mk tells whether os.MkdirAll succeeded. next is where the probe
\* continues: it emits the result, or after a failed HTTPS request it goes on
\* to checkSingleDomain with http://. The goroutine that receives from the
\* future of Submit discards the value; the model leaves the value in reply.
\* Variant: the Screenshot field is set without a call of Submit.
RequestNoSubmit(c, url, r, body, mk, next) ==
  /\ requests' = [requests EXCEPT ![pdom[c]] = Append(@, url)]
  /\ pres' = [pres EXCEPT ![c] = MakeResult(pdom[c], url, r, body, WantsScreenshot(r) /\ mk)]
  /\ ppc' = [ppc EXCEPT ![c] = next]
  /\ UNCHANGED <<ptask, pcont>>
  /\ UNCHANGED <<poolVars, workerVars, taskVars, stopVars, calls>>
  /\ UNCHANGED <<mainVars, pdom, emitted, batchVars, aggVars, progressDone>>
Request(c, url, r, body, mk, next) ==
  LET d == pdom[c]
      shot == WantsScreenshot(r) /\ mk
  IN /\ requests' = [requests EXCEPT ![d] = Append(@, url)]
     /\ pres' = [pres EXCEPT ![c] = MakeResult(d, url, r, body, shot)]
     /\ IF shot
          THEN /\ ppc' = [ppc EXCEPT ![c] = "sub_check"]
               /\ ptask' = [ptask EXCEPT ![c] = TaskId(d, url)]
               /\ pcont' = [pcont EXCEPT ![c] = next]
          ELSE /\ ppc' = [ppc EXCEPT ![c] = next]
               /\ UNCHANGED <<ptask, pcont>>
     /\ UNCHANGED <<poolVars, workerVars, taskVars, stopVars, calls>>
     /\ UNCHANGED <<mainVars, pdom, emitted, batchVars, aggVars, progressDone>>

\* CheckDomain without a scheme: client.Get("https://" + domain). A response
\* is final; after a transport error the probe falls back to http://.
HttpsFallsBackNever(r) == FALSE

HttpsFallsBackAlways(r) == TRUE

HttpsFallsBack(r) == r = 0

HttpsAttempt(c, r, body, mk) ==
  /\ ppc[c] = "https"
  /\ Request(c, "https", r, body, mk, IF HttpsFallsBack(r) THEN "single" ELSE "emit")

\* The URL checkSingleDomain requests: the input unchanged when it carries a
\* scheme, else "http://" + domain.
SingleUrlKeepsHttps(d) == IF qualified[d] THEN "given" ELSE "https"

SingleUrl(d) == IF qualified[d] THEN "given" ELSE "http"

\* checkSingleDomain: one request against the given URL; its result is final.
SingleAttempt(c, r, body, mk) ==
  /\ ppc[c] = "single"
  /\ Request(c, SingleUrl(pdom[c]), r, body, mk, "emit")

\* Submit is entered from CheckDomain.
SubmitEnter(c) ==
  /\ ppc[c] = "sub_check"
  /\ SubmitCheckClosed(c, ptask[c])
  /\ UNCHANGED <<poolVars, workerVars, stopVars, handled, calls, pcont, pipeVars>>

\* make(chan checker.Result, totalDomains*2)
ResultChanCap == 2 * TotalDomains

\* resultChan <- result
Emit(c) ==
  /\ ppc[c] = "emit"
  /\ Len(resultChan) < ResultChanCap
  /\ resultChan' = Append(resultChan, pres[c])
  /\ emitted' = [emitted EXCEPT ![pdom[c]] = Append(@, pres[c])]
  /\ ppc' = [ppc EXCEPT ![c] = "loop"]
  /\ pres' = [pres EXCEPT ![c] = NoResult]
  /\ pdom' = [pdom EXCEPT ![c] = 0]
  /\ UNCHANGED <<poolVars, workerVars, taskVars, stopVars, ptask, calls, pcont>>
  /\ UNCHANGED <<cfgScreenshot, cfgScreenshotAlive, cfgExtractInfo, qualified, call, mpc, sent, domainChan,
                 domainClosed, resultClosed, resultBatchChan, batchClosed, doneClosed,
                 exited, cleanups, summary, handedOff>>
  /\ UNCHANGED <<requests, batchVars, aggVars, progressDone>>

\* ------------------------------------------------------- batching goroutine
\* Variant: the channel has no place beyond the full batches.
BatchChanCapNoSpare == TotalDomains \div batchSize
\* make(chan []checker.Result, totalDomains/batchSize+1)
BatchChanCap == (TotalDomains \div batchSize) + 1

\* for result := range resultChan { processed++; append; if full or last ... }
BatchRecv ==
  /\ bpc = "recv"
  /\ resultChan # <<>>
  /\ resultChan' = Tail(resultChan)
  /\ processed' = processed + 1
  /\ resultBatch' = Append(resultBatch, Head(resultChan))
  /\ bpc' = IF Len(resultBatch') >= batchSize \/ processed' = TotalDomains
              THEN "send" ELSE "recv"
  /\ UNCHANGED <<poolVars, workerVars, callerVars, taskVars, stopVars>>
  /\ UNCHANGED <<cfgScreenshot, cfgScreenshotAlive, cfgExtractInfo, qualified, call, mpc, sent, domainChan,
                 domainClosed, resultClosed, resultBatchChan, batchClosed, doneClosed,
                 exited, cleanups, summary, handedOff>>
  /\ UNCHANGED <<probeVars, aggVars, progressDone>>

\* resultBatchChan <- resultBatch; resultBatch = nil
BatchSend ==
  /\ bpc = "send"
  /\ Len(resultBatchChan) < BatchChanCap
  /\ resultBatchChan' = Append(resultBatchChan, resultBatch)
  /\ resultBatch' = <<>>
  /\ bpc' = "recv"
  /\ UNCHANGED <<poolVars, workerVars, callerVars, taskVars, stopVars>>
  /\ UNCHANGED <<cfgScreenshot, cfgScreenshotAlive, cfgExtractInfo, qualified, call, mpc, sent, domainChan,
                 domainClosed, resultChan, resultClosed, batchClosed, doneClosed,
                 exited, cleanups, summary, handedOff>>
  /\ UNCHANGED <<probeVars, processed, aggVars, progressDone>>

\* The range over resultChan ends: if len(resultBatch) > 0 the last batch is
\* sent; then close(resultBatchChan).
BatchEnd ==
  /\ bpc = "recv"
  /\ resultChan = <<>>
  /\ resultClosed
  /\ resultBatch = <<>> \/ Len(resultBatchChan) < BatchChanCap
  /\ resultBatchChan' = IF resultBatch = <<>> THEN resultBatchChan
                        ELSE Append(resultBatchChan, resultBatch)
  /\ resultBatch' = <<>>
  /\ batchClosed' = TRUE
  /\ bpc' = "closeDone"
  /\ UNCHANGED <<poolVars, workerVars, callerVars, taskVars, stopVars>>
  /\ UNCHANGED <<cfgScreenshot, cfgScreenshotAlive, cfgExtractInfo, qualified, call, mpc, sent, domainChan,
                 domainClosed, resultChan, resultClosed, doneClosed,
                 exited, cleanups, summary, handedOff>>
  /\ UNCHANGED <<probeVars, processed, aggVars, progressDone>>

\* close(doneChan)
BatchCloseDone ==
  /\ bpc = "closeDone"
  /\ doneClosed' = TRUE
  /\ bpc' = "done"
  /\ UNCHANGED <<poolVars, workerVars, callerVars, taskVars, stopVars>>
  /\ UNCHANGED <<cfgScreenshot, cfgScreenshotAlive, cfgExtractInfo, qualified, call, mpc, sent, domainChan,
                 domainClosed, resultChan, resultClosed, resultBatchChan, batchClosed,
                 exited, cleanups, summary, handedOff>>
  /\ UNCHANGED <<probeVars, resultBatch, processed, aggVars, progressDone>>

\* ------------------------------------------------------ aggregator goroutine
\* for resultBatch := range resultBatchChan { resultsMutex.Lock()
AggRecv ==
  /\ apc = "recv"
  /\ resultBatchChan # <<>>
  /\ curBatch' = Head(resultBatchChan)
  /\ resultBatchChan' = Tail(resultBatchChan)
  /\ apc' = "locked"
  /\ UNCHANGED <<poolVars, workerVars, callerVars, taskVars, stopVars>>
  /\ UNCHANGED <<cfgScreenshot, cfgScreenshotAlive, cfgExtractInfo, qualified, call, mpc, sent, domainChan,
                 domainClosed, resultChan, resultClosed, batchClosed, doneClosed,
                 exited, cleanups, summary, handedOff>>
  /\ UNCHANGED <<probeVars, batchVars, progressDone>>
  /\ UNCHANGED <<alive, dead, screenshotCount, pageTypeCount, allResults>>

\* Variant: every recorded result is counted when a screenshot mode is on.
CountsScreenshotEvery(result) == cfgScreenshot \/ cfgScreenshotAlive

\* The screenshot counting rule of the aggregator.
CountsScreenshot(result) ==
  result.shot /\ IF cfgScreenshotAlive THEN result.alive ELSE cfgScreenshot

\* Variant: every result counts as alive.
AggStepAllAlive ==
  /\ apc = "locked"
  /\ curBatch # <<>>
  /\ LET result == Head(curBatch) IN
       /\ alive' = alive + 1
       /\ dead' = dead
       /\ pageTypeCount' = IF result.alive /\ result.page THEN pageTypeCount + 1
                           ELSE pageTypeCount
       /\ screenshotCount' = IF CountsScreenshot(result) THEN screenshotCount + 1
                             ELSE screenshotCount
       /\ allResults' = Append(allResults, result)
  /\ curBatch' = Tail(curBatch)
  /\ UNCHANGED apc
  /\ UNCHANGED <<poolVars, workerVars, callerVars, taskVars, stopVars>>
  /\ UNCHANGED <<mainVars, probeVars, batchVars, progressDone>>

\* One result of the batch: the counters, the page type count, the append.
AggStep ==
  /\ apc = "locked"
  /\ curBatch # <<>>
  /\ LET result == Head(curBatch) IN
       /\ alive' = IF result.alive THEN alive + 1 ELSE alive
       /\ dead' = IF result.alive THEN dead ELSE dead + 1
       /\ pageTypeCount' = IF result.alive /\ result.page THEN pageTypeCount + 1
                           ELSE pageTypeCount
       /\ screenshotCount' = IF CountsScreenshot(result) THEN screenshotCount + 1
                             ELSE screenshotCount
       /\ allResults' = Append(allResults, result)
  /\ curBatch' = Tail(curBatch)
  /\ UNCHANGED apc
  /\ UNCHANGED <<poolVars, workerVars, callerVars, taskVars, stopVars>>
  /\ UNCHANGED <<mainVars, probeVars, batchVars, progressDone>>

\* resultsMutex.Unlock()
AggUnlock ==
  /\ apc = "locked"
  /\ curBatch = <<>>
  /\ apc' = "recv"
  /\ UNCHANGED <<poolVars, workerVars, callerVars, taskVars, stopVars>>
  /\ UNCHANGED <<mainVars, probeVars, batchVars, progressDone>>
  /\ UNCHANGED <<curBatch, alive, dead, screenshotCount, pageTypeCount, allResults>>

\* The range over resultBatchChan ends.
AggExit ==
  /\ apc = "recv"
  /\ resultBatchChan = <<>>
  /\ batchClosed
  /\ apc' = "done"
  /\ UNCHANGED <<poolVars, workerVars, callerVars, taskVars, stopVars>>
  /\ UNCHANGED <<mainVars, probeVars, batchVars, progressDone>>
  /\ UNCHANGED <<curBatch, alive, dead, screenshotCount, pageTypeCount, allResults>>

\* -------------------------------------------------------- view.ShowProgress
\* Variant: the tick tests current > totalDomains and doneChan is not read.
ProgressStopsAboveTotal == processed > TotalDomains

\* What makes the goroutine return: a tick that finds current >= totalDomains,
\* or doneChan closed.
ProgressStops == processed >= TotalDomains \/ doneClosed

\* The goroutine returns at a tick with processed >= totalDomains or when
\* doneChan is closed; the deferred close(progressDone) runs.
ProgressReturn ==
  /\ ~exited
  /\ ~progressDone
  /\ ProgressStops
  /\ progressDone' = TRUE
  /\ UNCHANGED <<poolVars, workerVars, callerVars, taskVars, stopVars>>
  /\ UNCHANGED <<mainVars, probeVars, batchVars, aggVars>>

\* --------------------------------------------------------------------- main
MainStep(from, to) ==
  /\ mpc = from
  /\ mpc' = to
  /\ UNCHANGED <<poolVars, workerVars, callerVars, taskVars, stopVars>>
  /\ UNCHANGED <<cfgScreenshot, cfgScreenshotAlive, cfgExtractInfo, qualified, call, exited, cleanups>>
  /\ UNCHANGED <<probeVars, batchVars, aggVars, progressDone>>

\* for _, domain := range domains { domainChan <- domain }
MainSend ==
  /\ sent < TotalDomains
  /\ MainStep("send", "send")
  /\ sent' = sent + 1
  /\ domainChan' = Append(domainChan, sent + 1)
  /\ UNCHANGED <<domainClosed, resultChan, resultClosed, resultBatchChan, batchClosed,
                 doneClosed, summary, handedOff>>

\* close(domainChan)
MainCloseDomains ==
  /\ sent = TotalDomains
  /\ MainStep("send", "wgwait")
  /\ domainClosed' = TRUE
  /\ UNCHANGED <<sent, domainChan, resultChan, resultClosed, resultBatchChan, batchClosed,
                 doneClosed, summary, handedOff>>

\* wg.Wait(); if screenshotPool != nil { screenshotPool.Stop() }
MainWgWait ==
  /\ \A c \in Probers : ppc[c] = "done"
  /\ MainStep("wgwait", IF PoolExists THEN "stop" ELSE "closeResult")
  /\ UNCHANGED <<sent, domainChan, domainClosed, resultChan, resultClosed, resultBatchChan,
                 batchClosed, doneClosed, summary, handedOff>>

\* screenshotPool.Stop() has returned.
MainStopped ==
  /\ stpc["main"] = "returned"
  /\ MainStep("stop", "closeResult")
  /\ UNCHANGED <<sent, domainChan, domainClosed, resultChan, resultClosed, resultBatchChan,
                 batchClosed, doneClosed, summary, handedOff>>

\* close(resultChan)
MainCloseResult ==
  /\ MainStep("closeResult", "waitDone")
  /\ resultClosed' = TRUE
  /\ UNCHANGED <<sent, domainChan, domainClosed, resultChan, resultBatchChan,
                 batchClosed, doneClosed, summary, handedOff>>

\* <-doneChan
MainWaitDone ==
  /\ doneClosed
  /\ MainStep("waitDone", "waitProgress")
  /\ UNCHANGED <<sent, domainChan, domainClosed, resultChan, resultClosed, resultBatchChan,
                 batchClosed, doneClosed, summary, handedOff>>

\* if cfg.Screenshot || cfg.ScreenshotAlive { cleanupChromeProcesses() }:
\* where main goes after <-progressDone.
AfterProgressNoCleanup == "summary"

AfterProgress == IF PoolExists THEN "cleanup" ELSE "summary"

\* <-progressDone
MainWaitProgress ==
  /\ progressDone
  /\ MainStep("waitProgress", AfterProgress)
  /\ UNCHANGED <<sent, domainChan, domainClosed, resultChan, resultClosed, resultBatchChan,
                 batchClosed, doneClosed, summary, handedOff>>

\* cleanupChromeProcesses(), at the normal end of a run with a screenshot mode.
MainCleanup ==
  /\ mpc = "cleanup"
  /\ mpc' = "summary"
  /\ cleanups' = cleanups \cup {"main"}
  /\ UNCHANGED <<poolVars, workerVars, callerVars, taskVars, stopVars>>
  /\ UNCHANGED <<cfgScreenshot, cfgScreenshotAlive, cfgExtractInfo, qualified, call, exited>>
  /\ UNCHANGED <<sent, domainChan, domainClosed, resultChan, resultClosed, resultBatchChan,
                 batchClosed, doneClosed, summary, handedOff>>
  /\ UNCHANGED <<probeVars, batchVars, aggVars, progressDone>>

\* view.PrintSummary(len(domains), alive, dead, ..., pageTypeCount, ..., screenshotCount, ...)
MainSummary ==
  /\ MainStep("summary", "format")
  /\ summary' = <<[total |-> TotalDomains, alive |-> alive, dead |-> dead,
                   types |-> pageTypeCount, shots |-> screenshotCount]>>
  /\ UNCHANGED <<sent, domainChan, domainClosed, resultChan, resultClosed, resultBatchChan,
                 batchClosed, doneClosed, handedOff>>

\* view.SaveResultsToFile(allResults, ...) and the other formatters.
MainFormat ==
  /\ MainStep("format", "done")
  /\ handedOff' = allResults
  /\ UNCHANGED <<sent, domainChan, domainClosed, resultChan, resultClosed, resultBatchChan,
                 batchClosed, doneClosed, summary>>

\* The signal handler goes on to cleanupChromeProcesses once its call of Stop
\* has returned.
HandlerExitsEarly == stpc["signal"] \in {"wait", "returned"}

HandlerMayExit == stpc["signal"] = "returned"

\* The signal handler, after screenshotPool.Stop(): cleanupChromeProcesses();
\* os.Exit(0). The process ends, and every goroutine with it.
SignalExit ==
  /\ HandlerMayExit
  /\ cleanups' = cleanups \cup {"signal"}
  /\ exited' = TRUE
  /\ mpc' = "exited"
  /\ ppc' = [c \in Probers |-> "exited"]
  /\ wpc' = [w \in ShotWorkers |-> "exited"]
  /\ stpc' = [s \in Stoppers |-> "exited"]
  /\ bpc' = "exited"
  /\ apc' = "exited"
  /\ UNCHANGED <<poolVars, wtask, ptask, calls, pcont, taskVars>>
  /\ UNCHANGED <<closeCount, atClose, panics>>
  /\ UNCHANGED <<cfgScreenshot, cfgScreenshotAlive, cfgExtractInfo, qualified, call, sent, domainChan,
                 domainClosed, resultChan, resultClosed, resultBatchChan, batchClosed,
                 doneClosed, summary, handedOff>>
  /\ UNCHANGED <<probeVars, resultBatch, processed, progressDone>>
  /\ UNCHANGED <<curBatch, alive, dead, screenshotCount, pageTypeCount, allResults>>

\* ------------------------------------------------------------------ panics
\* The goroutines of a run: main, the probe workers, the batching goroutine,
\* the aggregator goroutine and the screenshot workers.
Goroutines == {"main", "probe", "batch", "agg", "shot"}

\* A goroutine of the kind is running.
Running(g) ==
  CASE g = "main" -> mpc \notin {"done", "exited"}
    [] g = "probe" -> \E c \in Probers : ppc[c] \notin {"done", "exited"}
    [] g = "batch" -> bpc \notin {"done", "exited"}
    [] g = "agg" -> apc \notin {"done", "exited"}
    [] g = "shot" -> \E w \in ShotWorkers : wpc[w] \notin {"none", "done", "exited"}

\* The process ends: every goroutine ends with it.
ProcessEnds ==
  /\ exited' = TRUE
  /\ mpc' = "exited"
  /\ ppc' = [c \in Probers |-> "exited"]
  /\ wpc' = [w \in ShotWorkers |-> "exited"]
  /\ stpc' = [s \in Stoppers |-> "exited"]
  /\ bpc' = "exited"
  /\ apc' = "exited"
  /\ UNCHANGED <<poolVars, wtask, ptask, calls, pcont, taskVars>>
  /\ UNCHANGED <<closeCount, atClose>>
  /\ UNCHANGED <<cfgScreenshot, cfgScreenshotAlive, cfgExtractInfo, qualified, call, sent, domainChan,
                 domainClosed, resultChan, resultClosed, resultBatchChan, batchClosed,
                 doneClosed, summary, handedOff>>
  /\ UNCHANGED <<probeVars, resultBatch, processed, progressDone>>
  /\ UNCHANGED <<curBatch, alive, dead, screenshotCount, pageTypeCount, allResults>>

\* A panic in the main goroutine: the function deferred at the top of main
\* recovers it and calls cleanupChromeProcesses(); main then returns.
MainPanic ==
  /\ Running("main")
  /\ cleanups' = cleanups \cup {"recover"}
  /\ UNCHANGED panics
  /\ ProcessEnds

\* A panic in another goroutine: no function deferred in that goroutine
\* recovers it (the recover of main is deferred in the main goroutine, the one
\* of Submit covers Submit alone), so the runtime ends the process.
GoroutinePanic(g) ==
  /\ g # "main"
  /\ Running(g)
  /\ panics' = panics \cup {g}
  /\ UNCHANGED cleanups
  /\ ProcessEnds

\* -------------------------------------------------------------- ProbeSpec
\* The channels, counters and goroutines of main after their construction;
\* Q is the set of input lists, each telling which domains carry a scheme.
InitPipeline(P, Q) ==
  /\ qualified \in Q
  /\ call = NoCall
  /\ mpc = "send"
  /\ sent = 0
  /\ domainChan = <<>>
  /\ domainClosed = FALSE
  /\ resultChan = <<>>
  /\ resultClosed = FALSE
  /\ resultBatchChan = <<>>
  /\ batchClosed = FALSE
  /\ doneClosed = FALSE
  /\ exited = FALSE
  /\ cleanups = {}
  /\ pdom = [c \in P |-> 0]
  /\ pres = [c \in P |-> NoResult]
  /\ requests = [d \in DOMAIN qualified |-> <<>>]
  /\ emitted = [d \in DOMAIN qualified |-> <<>>]
  /\ bpc = "recv"
  /\ resultBatch = <<>>
  /\ processed = 0
  /\ apc = "recv"
  /\ curBatch = <<>>
  /\ alive = 0
  /\ dead = 0
  /\ screenshotCount = 0
  /\ pageTypeCount = 0
  /\ allResults = <<>>
  /\ progressDone = FALSE
  /\ summary = <<>>
  /\ handedOff = <<>>

\* The input list of ProbeSpec: the first domain carries a scheme, the others
\* do not.
ProbeInputs == {[d \in Domains |-> d = 1]}

\* A run under any screenshot configuration; page information is not
\* extracted.
ProbeInit ==
  /\ cfgScreenshot \in BOOLEAN
  /\ cfgScreenshotAlive \in BOOLEAN
  /\ cfgExtractInfo = FALSE
  /\ InitPool(1..(2 * NumDomains), cfgScreenshot \/ cfgScreenshotAlive)
  /\ InitCallers(1..ProbeConcurrency)
  /\ InitPipeline(1..ProbeConcurrency, ProbeInputs)

\* The run up to the return of main's call of Stop. The goroutines that
\* consume resultChan are left out: the channel holds 2 * totalDomains
\* results, so they never hold up a probe worker.
ProbeNext ==
  \/ MainSend
  \/ MainCloseDomains
  \/ MainWgWait
  \/ MainStopped
  \/ SignalExit
  \/ \E c \in Probers : ProbeTake(c)
  \/ \E c \in Probers : ProbeExit(c)
  \/ \E c \in Probers, r \in HttpOutcomes, mk \in BOOLEAN : HttpsAttempt(c, r, TRUE, mk)
  \/ \E c \in Probers, r \in HttpOutcomes, mk \in BOOLEAN : SingleAttempt(c, r, TRUE, mk)
  \/ \E c \in Probers : SubmitEnter(c)
  \/ \E c \in Probers : SubmitSend(c)
  \/ \E c \in Probers : SubmitTimeout(c)
  \/ \E c \in Probers : SubmitPanic(c)
  \/ \E c \in Probers : Emit(c)
  \/ \E w \in ShotWorkers : WorkerRecv(w)
  \/ \E w \in ShotWorkers : WorkerExit(w)
  \/ \E w \in ShotWorkers, outs \in AttemptRuns : WorkerAttempt(w, outs)
  \/ \E s \in Stoppers : StopLock(s)
  \/ \E s \in Stoppers : StopClose(s)
  \/ \E s \in Stoppers : StopWait(s)

ProbeSpec == ProbeInit /\ [][ProbeNext]_vars

\* ------------------------------------------------------------------ RunSpec
\* The two screenshot modes: -screenshot and -screenshot-alive.
ScreenshotModes == {<<TRUE, FALSE>>, <<FALSE, TRUE>>}

\* A whole run with a screenshot mode.
RunInit ==
  /\ \E mode \in ScreenshotModes : cfgScreenshot = mode[1] /\ cfgScreenshotAlive = mode[2]
  /\ cfgExtractInfo = FALSE
  /\ InitPool(1..(2 * NumDomains), TRUE)
  /\ InitCallers(1..ProbeConcurrency)
  /\ InitPipeline(1..ProbeConcurrency, ProbeInputs)

\* A run that completes normally: no signal arrives and no goroutine panics,
\* so Stop is called by main alone and no Submit finds p.tasks closed.
RunNext ==
  \/ MainSend
  \/ MainCloseDomains
  \/ MainWgWait
  \/ MainStopped
  \/ MainCloseResult
  \/ MainWaitDone
  \/ MainWaitProgress
  \/ MainCleanup
  \/ MainSummary
  \/ MainFormat
  \/ \E c \in Probers : ProbeTake(c)
  \/ \E c \in Probers : ProbeExit(c)
  \/ \E c \in Probers, r \in HttpOutcomes : HttpsAttempt(c, r, TRUE, TRUE)
  \/ \E c \in Probers, r \in HttpOutcomes : SingleAttempt(c, r, TRUE, TRUE)
  \/ \E c \in Probers : SubmitEnter(c)
  \/ \E c \in Probers : SubmitSend(c)
  \/ \E c \in Probers : SubmitTimeout(c)
  \/ \E c \in Probers : Emit(c)
  \/ \E w \in ShotWorkers : WorkerRecv(w)
  \/ \E w \in ShotWorkers : WorkerExit(w)
  \/ \E w \in ShotWorkers, outs \in AttemptRuns : WorkerAttempt(w, outs)
  \/ StopLock("main")
  \/ StopClose("main")
  \/ StopWait("main")
  \/ BatchRecv
  \/ BatchSend
  \/ BatchEnd
  \/ BatchCloseDone
  \/ AggRecv
  \/ AggStep
  \/ AggUnlock
  \/ AggExit
  \/ ProgressReturn

RunSpec == RunInit /\ [][RunNext]_vars

\* The same run under the Go scheduler: a goroutine that can take a step
\* takes one in the end (main, every probe worker, every screenshot worker,
\* the batching goroutine, the aggregator and the progress reporter).
FairRunSpec ==
  /\ RunSpec
  /\ WF_vars(\/ MainSend \/ MainCloseDomains \/ MainWgWait \/ MainStopped \/ MainCloseResult
             \/ MainWaitDone \/ MainWaitProgress \/ MainCleanup \/ MainSummary \/ MainFormat
             \/ StopLock("main") \/ StopClose("main") \/ StopWait("main"))
  /\ \A c \in 1..ProbeConcurrency :
       WF_vars(\/ ProbeTake(c) \/ ProbeExit(c) \/ SubmitEnter(c) \/ SubmitSend(c)
               \/ SubmitTimeout(c) \/ Emit(c)
               \/ \E r \in HttpOutcomes : HttpsAttempt(c, r, TRUE, TRUE)
               \/ \E r \in HttpOutcomes : SingleAttempt(c, r, TRUE, TRUE))
  /\ \A w \in ShotWorkers :
       WF_vars(\/ WorkerRecv(w) \/ WorkerExit(w)
               \/ \E outs \in AttemptRuns : WorkerAttempt(w, outs))
  /\ WF_vars(BatchRecv \/ BatchSend \/ BatchEnd \/ BatchCloseDone)
  /\ WF_vars(AggRecv \/ AggStep \/ AggUnlock \/ AggExit)
  /\ WF_vars(ProgressReturn)

\* ---------------------------------------------------------------- CrashSpec
\* A run with a screenshot mode, up to the return of main's call of Stop, in
\* which a signal may arrive and any goroutine may panic.
CrashNext ==
  \/ ProbeNext
  \/ MainPanic
  \/ \E g \in Goroutines : GoroutinePanic(g)

CrashSpec == RunInit /\ [][CrashNext]_vars

\* --------------------------------------------------------------- StatusSpec
\* The status codes drawn for a response: the codes getStatusTextAndAlive
\* names, and codes on both sides of 400 that it does not name.
StatusCodes == {100, 200, 204, 301, 302, 304, 399, 400, 401, 403, 404, 500, 502, 503, 599}

\* What client.Get yields under StatusSpec: a transport error or a response
\* with one of the status codes.
StatusOutcomes == {0} \cup StatusCodes

\* StatusSpec follows one probe worker: calls of CheckDomain share no state
\* but resultChan, and the claims checked here concern single calls.
StatusProbers == {1}

\* One probe worker alone, without a screenshot mode, on every input list.
StatusInit ==
  /\ cfgScreenshot = FALSE
  /\ cfgScreenshotAlive = FALSE
  /\ cfgExtractInfo = FALSE
  /\ InitPool({}, FALSE)
  /\ InitCallers(StatusProbers)
  /\ InitPipeline(StatusProbers, [Domains -> BOOLEAN])

StatusNext ==
  \/ MainSend
  \/ MainCloseDomains
  \/ \E c \in Probers : ProbeTake(c)
  \/ \E c \in Probers : ProbeExit(c)
  \/ \E c \in Probers, r \in StatusOutcomes : HttpsAttempt(c, r, TRUE, TRUE)
  \/ \E c \in Probers, r \in StatusOutcomes : SingleAttempt(c, r, TRUE, TRUE)
  \/ \E c \in Probers : Emit(c)

StatusSpec == StatusInit /\ [][StatusNext]_vars

\* --------------------------------------------------------------------- Spec
\* A run without a screenshot mode: main creates no pool.
Init ==
  /\ cfgScreenshot = FALSE
  /\ cfgScreenshotAlive = FALSE
  /\ cfgExtractInfo \in BOOLEAN
  /\ InitPool({}, FALSE)
  /\ InitCallers(1..Concurrency)
  /\ InitPipeline(1..Concurrency, [Domains -> BOOLEAN])

Next ==
  \/ MainSend
  \/ MainCloseDomains
  \/ MainWgWait
  \/ MainCloseResult
  \/ MainWaitDone
  \/ MainWaitProgress
  \/ MainSummary
  \/ MainFormat
  \/ \E c \in Probers : ProbeTake(c)
  \/ \E c \in Probers : ProbeExit(c)
  \/ \E c \in Probers, r \in HttpOutcomes, body \in BOOLEAN : HttpsAttempt(c, r, body, TRUE)
  \/ \E c \in Probers, r \in HttpOutcomes, body \in BOOLEAN : SingleAttempt(c, r, body, TRUE)
  \/ \E c \in Probers : Emit(c)
  \/ BatchRecv
  \/ BatchSend
  \/ BatchEnd
  \/ BatchCloseDone
  \/ AggRecv
  \/ AggStep
  \/ AggUnlock
  \/ AggExit
  \/ ProgressReturn

Spec == Init /\ [][Next]_vars

\* ================================================================ functions
\* Functions of the program called on their own: call holds the name of the
\* function, its arguments, whether it has returned and its return value.
Pending == "pending"

\* The function fn returns ret to a caller that is waiting for it.
Return(fn, ret) ==
  /\ call.fn = fn
  /\ ~call.done
  /\ call' = [call EXCEPT !.done = TRUE, !.ret = ret]
  /\ UNCHANGED <<cfgScreenshot, cfgScreenshotAlive, cfgExtractInfo, qualified, mpc, sent,
                 domainChan, domainClosed, resultChan, resultClosed, resultBatchChan,
                 batchClosed, doneClosed, exited, cleanups, summary, handedOff>>
  /\ UNCHANGED <<poolVars, workerVars, callerVars, taskVars, stopVars>>
  /\ UNCHANGED <<probeVars, batchVars, aggVars, progressDone>>

\* ------------------------------------------------- main: the list of domains
\* An entry of the input list is a string, written as the sequence of its
\* parts: white space " ", a scheme prefix, a host name, a path. "/%zz" is a
\* path with an invalid escape.
Hosts == {"a.com", "b.com"}

\* The entries the input lists are drawn from: a host alone or behind a
\* scheme, with and without a path; the empty entry (as "a.com,," splits), an
\* entry in white space, a scheme with nothing behind it and a URL that
\* url.Parse rejects.
InputEntries ==
  {s \o <<h>> \o p : s \in {<<>>, <<"http://">>, <<"https://">>},
                     h \in Hosts, p \in {<<>>, <<"/">>}}
    \cup {<<>>, <<" ", "a.com", " ">>, <<"http://">>, <<"https://", "a.com", "/%zz">>}

\* strings.TrimSpace(d)
RECURSIVE TrimSpace(_)
TrimSpace(d) ==
  IF d # <<>> /\ Head(d) = " " THEN TrimSpace(Tail(d))
  ELSE IF d # <<>> /\ d[Len(d)] = " " THEN TrimSpace(SubSeq(d, 1, Len(d) - 1))
  ELSE d

\* strings.HasPrefix(d, "http://") || strings.HasPrefix(d, "https://")
HasSchemePrefix(d) == d # <<>> /\ Head(d) \in {"http://", "https://"}

\* url.Parse(d) for a d with a scheme prefix: the error, and u.Host, the
\* text between the scheme and the path.
UrlParse(d) ==
  [err |-> \E i \in 1..Len(d) : d[i] = "/%zz",
   Host |-> IF Len(d) >= 2 /\ d[2] \in Hosts THEN <<d[2]>> ELSE <<>>]

\* The string main enters domainMap and uniqueDomains for the trimmed
\* entry d: u.Host when d has a scheme prefix, parses and has a host, else d.
DomainKey(d) ==
  IF HasSchemePrefix(d) /\ ~UrlParse(d).err /\ UrlParse(d).Host # <<>>
    THEN UrlParse(d).Host
    ELSE d

\* The loop over domains: what uniqueDomains is after it.
RECURSIVE UniqueDomains(_, _, _)
UniqueDomains(domains, domainMap, uniqueDomains) ==
  IF domains = <<>>
    THEN uniqueDomains
    ELSE LET key == DomainKey(TrimSpace(Head(domains)))
         IN IF key \in domainMap
              THEN UniqueDomains(Tail(domains), domainMap, uniqueDomains)
              ELSE UniqueDomains(Tail(domains), domainMap \cup {key},
                                 Append(uniqueDomains, key))

CallUniqueDomains == Return("uniqueDomains", UniqueDomains(call.args, {}, <<>>))

\* ---------------------------------- calculateOptimalScreenshotConcurrency
\* The limit by the number of domains: 15 above 20000 domains, 25 above
\* 10000, and 50 otherwise.
ConcurrencyLimitFlat(optimalConcurrency, totalDomains) ==
  IF optimalConcurrency > 50 THEN 50 ELSE optimalConcurrency

ConcurrencyLimit(optimalConcurrency, totalDomains) ==
  IF totalDomains > 20000
    THEN IF optimalConcurrency > 15 THEN 15 ELSE optimalConcurrency
    ELSE IF totalDomains > 10000
           THEN IF optimalConcurrency > 25 THEN 25 ELSE optimalConcurrency
           ELSE IF optimalConcurrency > 50 THEN 50 ELSE optimalConcurrency

\* The computation without the floor of one worker.
calculateOptimalNoFloor(requestedConcurrency, totalDomains, numCPU, memoryMB) ==
  LET cpuBasedConcurrency == IF numCPU >= 8 THEN numCPU * 2 ELSE numCPU
      memoryBasedConcurrency == (memoryMB * 7) \div 1536
      least == IF memoryBasedConcurrency < cpuBasedConcurrency
                 THEN memoryBasedConcurrency
                 ELSE cpuBasedConcurrency
      limited == ConcurrencyLimit(least, totalDomains)
      asked == IF requestedConcurrency < limited THEN requestedConcurrency ELSE limited
  IN IF asked > totalDomains THEN totalDomains ELSE asked
\* numCPU is runtime.NumCPU() and memoryMB the memory getSystemMemoryGB()
\* reports, in MB: int(memoryGB * 0.7 / 0.15) is memoryMB * 7 / 1536 rounded
\* down.
calculateOptimalScreenshotConcurrency(requestedConcurrency, totalDomains, numCPU, memoryMB) ==
  LET cpuBasedConcurrency == IF numCPU >= 8 THEN numCPU * 2 ELSE numCPU
      memoryBasedConcurrency == (memoryMB * 7) \div 1536
      least == IF memoryBasedConcurrency < cpuBasedConcurrency
                 THEN memoryBasedConcurrency
                 ELSE cpuBasedConcurrency
      limited == ConcurrencyLimit(least, totalDomains)
      asked == IF requestedConcurrency < limited THEN requestedConcurrency ELSE limited
      positive == IF asked < 1 THEN 1 ELSE asked
  IN IF positive > totalDomains THEN totalDomains ELSE positive

CallCalculateOptimal ==
  Return("calculateOptimalScreenshotConcurrency",
         calculateOptimalScreenshotConcurrency(call.args.requestedConcurrency,
                                               call.args.totalDomains,
                                               call.args.numCPU, call.args.memoryMB))

\* ----------------------------------------------------------- calculateTimeout
\* Variant: the case concurrency <= 30 returns baseTimeout + 10 s.
calculateTimeoutDip(concurrency) ==
  LET baseTimeout == 20 IN
    IF concurrency <= 5 THEN baseTimeout
    ELSE IF concurrency <= 10 THEN baseTimeout + 5
    ELSE IF concurrency <= 15 THEN baseTimeout + 10
    ELSE IF concurrency <= 20 THEN baseTimeout + 15
    ELSE IF concurrency <= 30 THEN baseTimeout + 10
    ELSE IF concurrency <= 50 THEN baseTimeout + 25
    ELSE baseTimeout + 30

\* The timeout of one screenshot, in seconds.
calculateTimeout(concurrency) ==
  LET baseTimeout == 20 IN
    IF concurrency <= 5 THEN baseTimeout
    ELSE IF concurrency <= 10 THEN baseTimeout + 5
    ELSE IF concurrency <= 15 THEN baseTimeout + 10
    ELSE IF concurrency <= 20 THEN baseTimeout + 15
    ELSE IF concurrency <= 30 THEN baseTimeout + 20
    ELSE IF concurrency <= 50 THEN baseTimeout + 25
    ELSE baseTimeout + 30

\* calculateTimeout called for two values of currentConcurrency.
CallCalculateTimeout ==
  Return("calculateTimeout",
         <<calculateTimeout(call.args[1]), calculateTimeout(call.args[2])>>)

\* ---------------------------------------------------- TakeScreenshotIndependent
\* What chromedp.Run leaves behind: "image" (no error, buf filled), "empty"
\* (no error, buf empty), "neterr" (an error whose text names one of the four
\* net::ERR codes, buf empty), "neterrdata" (such an error, buf filled) or
\* "other" (another error).
Renders == {"image", "empty", "neterr", "neterrdata", "other"}

\* How writing the file at screenshotPath ends (os.WriteFile, or MkdirAll,
\* os.Create and png.Encode in generateNetworkErrorImage): "written",
\* "failed", or "failednamed" when the error text, which quotes the path,
\* contains one of the four codes.
Writes == {"written", "failed", "failednamed"}

\* Variant: a recognized network error is returned as it is, nothing written.
TakeScreenshotIndependentNoImage(render, write) ==
  IF render \in {"other", "empty"}
    THEN [err |-> "hard", file |-> "none"]
    ELSE IF render \in {"neterr", "neterrdata"}
      THEN [err |-> "neterr", file |-> "none"]
      ELSE IF write = "written"
        THEN [err |-> "ok", file |-> "image"]
        ELSE [err |-> IF write = "failed" THEN "hard" ELSE "neterr", file |-> "none"]

\* One call: err is what it returns (see Outcomes), file what it has put at
\* screenshotPath: the capture ("image"), the data captured before the
\* network error ("data"), the generated error image ("placeholder") or
\* nothing ("none").
TakeScreenshotIndependent(render, write) ==
  IF render \in {"other", "empty"}
    THEN [err |-> "hard", file |-> "none"]
    ELSE IF write = "written"
      THEN [err |-> "ok",
            file |-> IF render = "image" THEN "image"
                     ELSE IF render = "neterrdata" THEN "data" ELSE "placeholder"]
      ELSE [err |-> IF write = "failed" THEN "hard" ELSE "neterr", file |-> "none"]

\* The retry loop of a worker for one task whose attempts end as run says:
\* the account of the loop, and what each attempt made has put at the path.
CallRetryLoop ==
  Return("retryLoop",
         LET took == [i \in 1..Len(call.args) |->
                        TakeScreenshotIndependent(call.args[i].render, call.args[i].write)]
             acc == RetryLoop(0, FALSE, [i \in 1..Len(took) |-> took[i].err], ReplyCap, NoRun)
         IN [acc |-> acc, files |-> [i \in 1..acc.attempts |-> took[i].file]])

\* ------------------------------------------------------- main: the start-up
\* main from flag.Parse to the start of the progress display, for a command
\* line a: a.NArg positional arguments, a.shot a screenshot mode
\* (cfg.Screenshot || cfg.ScreenshotAlive), a.outputs one of -excel, -html and
\* -simple-html given, a.comma the argument contains a comma (a.entries are
\* then its parts), else it names a file that cannot be opened (a.openErr)
\* or holds the lines a.entries. ReadDomainsFromFile trims every line and
\* skips the empty ones and those that start with "#". What is returned: did
\* the process exit, with what code, and what main had created by then.
MainStartUpLateCheck(a) ==
  LET kept == SelectSeq([i \in 1..Len(a.entries) |-> TrimSpace(a.entries[i])],
                        LAMBDA d : d # <<>> /\ Head(d) # "#")
      read == IF a.comma THEN [err |-> FALSE, domains |-> a.entries]
              ELSE IF a.openErr THEN [err |-> TRUE, domains |-> <<>>]
              ELSE [err |-> FALSE, domains |-> kept]
      made == {"resultChan", "domainChan", "doneChan", "progressDone"}
                \cup (IF a.shot THEN {"screenshotPool", "setupGracefulShutdown"} ELSE {})
  IN IF a.NArg < 1 \/ (a.shot /\ ~a.outputs) \/ read.err
       THEN [exited |-> TRUE, code |-> 1, created |-> {}]
     ELSE IF Len(UniqueDomains(read.domains, {}, <<>>)) = 0
       THEN [exited |-> TRUE, code |-> 1, created |-> made]
     ELSE [exited |-> FALSE, code |-> 0, created |-> made \cup {"ShowProgress"}]
MainStartUp(a) ==
  LET exit1 == [exited |-> TRUE, code |-> 1, created |-> {}]
      kept == SelectSeq([i \in 1..Len(a.entries) |-> TrimSpace(a.entries[i])],
                        LAMBDA d : d # <<>> /\ Head(d) # "#")
      read == IF a.comma THEN [err |-> FALSE, domains |-> a.entries]
              ELSE IF a.openErr THEN [err |-> TRUE, domains |-> <<>>]
              ELSE [err |-> FALSE, domains |-> kept]
      domains == UniqueDomains(read.domains, {}, <<>>)
  IN IF a.NArg < 1 THEN exit1
     ELSE IF a.shot /\ ~a.outputs THEN exit1
     ELSE IF read.err THEN exit1
     ELSE IF Len(domains) = 0 THEN exit1
     ELSE [exited |-> FALSE, code |-> 0,
           created |-> {"resultChan", "domainChan", "doneChan", "progressDone",
                        "ShowProgress"}
                         \cup (IF a.shot THEN {"screenshotPool", "setupGracefulShutdown"}
                                         ELSE {})]

CallMain == Return("main", MainStartUp(call.args))

\* ------------------------------------------------------------ detectPageType
\* A page body is written as the sequence of its fragments; no indicator
\* occurs in a body other than as one of its fragments. "<form id=login>" is a
\* fragment that holds none of the indicators as a substring (the indicator
\* "<form.*login" is searched for letter by letter).
Fragments ==
  {"hello", "<form id=login>", "Sign In", "login_form", "Admin", "console", "API",
   "json", "{\"", "upload", "multipart/form-data"}

\* strings.ToLower, fragment by fragment.
ToLower(content) ==
  [i \in 1..Len(content) |->
     CASE content[i] = "Sign In" -> "sign in"
       [] content[i] = "Admin" -> "admin"
       [] content[i] = "API" -> "api"
       [] OTHER -> content[i]]

\* containsAny(content, patterns): strings.Contains for some pattern.
containsAny(content, patterns) ==
  \E pattern \in patterns : \E i \in 1..Len(content) : content[i] = pattern

\* The Type of the page type returned: "Login" for "登录页面", "AdminPanel"
\* for "管理后台", "API" for "API接口", "Upload" for "上传页面", and "None"
\* for nil. The indicators written in Chinese are left out of the lists: no
\* fragment holds one.
detectPageTypeAdminFirst(content) ==
  LET lowerContent == ToLower(content)
  IN IF containsAny(lowerContent, {"admin", "manage", "dashboard", "console",
                                   "control panel", "cpanel"})
       THEN "AdminPanel"
     ELSE IF containsAny(lowerContent, {"<form.*login", "login.*<form", "sign in",
                                        "signin", "username.*password",
                                        "userid.*password", "login_form",
                                        "input.*password"})
       THEN "Login"
     ELSE IF \/ containsAny(lowerContent, {"api", "swagger", "graphql", "endpoint", "json"})
             \/ containsAny(content, {"{\"", "[{\""})
       THEN "API"
     ELSE IF containsAny(lowerContent, {"upload", "file", "browse",
                                        "<input.*type=\"file\"", "multipart/form-data"})
       THEN "Upload"
     ELSE "None"
detectPageType(content) ==
  LET lowerContent == ToLower(content)
  IN IF containsAny(lowerContent, {"<form.*login", "login.*<form", "sign in", "signin",
                                   "username.*password", "userid.*password",
                                   "login_form", "input.*password"})
       THEN "Login"
     ELSE IF containsAny(lowerContent, {"admin", "manage", "dashboard", "console",
                                        "control panel", "cpanel"})
       THEN "AdminPanel"
     ELSE IF \/ containsAny(lowerContent, {"api", "swagger", "graphql", "endpoint", "json"})
             \/ containsAny(content, {"{\"", "[{\""})
       THEN "API"
     ELSE IF containsAny(lowerContent, {"upload", "file", "browse",
                                        "<input.*type=\"file\"", "multipart/form-data"})
       THEN "Upload"
     ELSE "None"

CallDetectPageType == Return("detectPageType", detectPageType(call.args))

\* --------------------------------------------------------- browser sessions
\* chromedp.NewExecAllocator and chromedp.NewContext at the head of
\* TakeScreenshotIndependent start a Chrome process of their own for the
\* call, which the deferred cancels end at its return: the session of a
\* call is the next process, launched being the number started before.
NewExecAllocatorShared(launched) == 1
NewExecAllocator(launched) == launched + 1

\* The sessions the workers use. schedule is the order in which the workers
\* make their attempts (an entry for a worker who has no attempt left to
\* make is passed over), left[w] the number of attempts worker w still makes
\* and used[w] the sessions of its attempts so far.
RECURSIVE WorkerSessions(_, _, _, _)
WorkerSessions(schedule, left, launched, used) ==
  IF schedule = <<>>
    THEN used
    ELSE LET w == Head(schedule)
         IN IF left[w] = 0
              THEN WorkerSessions(Tail(schedule), left, launched, used)
              ELSE WorkerSessions(Tail(schedule), [left EXCEPT ![w] = @ - 1],
                                  launched + 1,
                                  [used EXCEPT ![w] = Append(@, NewExecAllocator(launched))])

\* Two workers, each with the tasks it dequeues in its lifetime: a task takes
\* the attempts its retry loop makes.
CallWorkerSessions ==
  Return("workerSessions",
         LET Attempts(ts, i) == RetryLoop(0, FALSE, ts[i], ReplyCap, NoRun).attempts
             Sum(ts) == IF Len(ts) = 0 THEN 0
                        ELSE IF Len(ts) = 1 THEN Attempts(ts, 1)
                        ELSE Attempts(ts, 1) + Attempts(ts, 2)
         IN WorkerSessions(call.args.schedule,
                           [w \in 1..2 |-> Sum(call.args.tasks[w])], 0,
                           [w \in 1..2 |-> <<>>]))

\* ----------------------------------------------------------------- UnitSpec
\* The calls made: every input list of at most MaxEntries entries; the worker
\* count for requested concurrencies, domain counts, CPU counts and memory
\* sizes on both sides of every threshold; the timeout for every two
\* concurrencies from -1 to MaxConcurrency; the retry loop for every way the
\* maxRetries + 1 attempts on a task can end; main's start-up for every
\* command line over lists of at most two entries (an argument with a comma
\* splits into two parts); the page type of every body of at most MaxEntries
\* fragments; the browser sessions of two workers with up to two tasks each,
\* for every order of their first five attempts.
UnitCalls(fn) ==
  CASE fn = "uniqueDomains" ->
        {[fn |-> "uniqueDomains", args |-> l, done |-> FALSE, ret |-> Pending] :
           l \in UNION {[1..n -> InputEntries] : n \in 0..MaxEntries}}
    [] fn = "calculateOptimalScreenshotConcurrency" ->
        {[fn |-> "calculateOptimalScreenshotConcurrency",
          args |-> [requestedConcurrency |-> r, totalDomains |-> n, numCPU |-> c, memoryMB |-> m],
          done |-> FALSE, ret |-> Pending] :
           r \in {-1, 0, 1, 10, 20, 40, 100}, n \in {1, 5, 100, 10000, 10001, 20000, 20001},
           c \in {1, 4, 8, 16, 64}, m \in {128, 2048, 16384, 65536}}
    [] fn = "calculateTimeout" ->
        {[fn |-> "calculateTimeout", args |-> <<c1, c2>>, done |-> FALSE, ret |-> Pending] :
           c1, c2 \in -1..MaxConcurrency}
    [] fn = "retryLoop" ->
        {[fn |-> "retryLoop", args |-> run, done |-> FALSE, ret |-> Pending] :
           run \in [1..(maxRetries + 1) ->
                      {a \in [render : Renders, write : Writes] :
                         a.render \in {"other", "empty"} => a.write = "failed"}]}
    [] fn = "detectPageType" ->
        {[fn |-> "detectPageType", args |-> content, done |-> FALSE, ret |-> Pending] :
           content \in UNION {[1..n -> Fragments] : n \in 0..MaxEntries}}
    [] fn = "workerSessions" ->
        {[fn |-> "workerSessions", args |-> [tasks |-> ts, schedule |-> sch],
          done |-> FALSE, ret |-> Pending] :
           ts \in [1..2 -> UNION {[1..n -> {r \in AttemptRuns : r[1] # "neterr"}] : n \in 0..2}],
           sch \in [1..5 -> 1..2]}
    [] fn = "main" ->
        {[fn |-> "main", args |-> a, done |-> FALSE, ret |-> Pending] :
           a \in {x \in [NArg : {0, 1}, shot : BOOLEAN, outputs : BOOLEAN, comma : BOOLEAN,
                         openErr : BOOLEAN,
                         entries : UNION {[1..n -> {<<>>, <<" ">>, <<"#", "a.com">>, <<"a.com">>,
                                                    <<"https://", "a.com">>}] : n \in 0..2}] :
                     /\ x.comma => Len(x.entries) = 2 /\ ~x.openErr
                     /\ x.NArg = 0 => x.entries = <<>> /\ ~x.comma /\ ~x.openErr}}

UnitInit ==
  /\ InitPool({}, FALSE)
  /\ InitCallers({})
  /\ InitIdlePipeline
  /\ \E fn \in {"uniqueDomains", "calculateOptimalScreenshotConcurrency",
                "calculateTimeout", "retryLoop", "detectPageType", "workerSessions",
                "main"} : call \in UnitCalls(fn)

UnitNext ==
  \/ CallUniqueDomains
  \/ CallCalculateOptimal
  \/ CallCalculateTimeout
  \/ CallRetryLoop
  \/ CallMain
  \/ CallDetectPageType
  \/ CallWorkerSessions

UnitSpec == UnitInit /\ [][UnitNext]_vars


\* --------------------------------------------------------------- FanOutSpec
\* A run without a screenshot mode for every value of cfg.Concurrency up to
\* Concurrency: main starts that many probe workers, none for a value of 0
\* (or below, which the flag accepts as well).
FanOutInit ==
  /\ cfgScreenshot = FALSE
  /\ cfgScreenshotAlive = FALSE
  /\ cfgExtractInfo = FALSE
  /\ InitPool({}, FALSE)
  /\ \E n \in 0..Concurrency : InitCallers(1..n) /\ InitPipeline(1..n, ProbeInputs)

FanOutSpec == FanOutInit /\ [][Next]_vars


\* ------------------------------------------------------------- BatchingSpec
\* A run without a screenshot mode for every number of domains up to
\* MaxTotal, which is above batchSize: one probe worker, every domain given
\* without a scheme and answering 200 over HTTPS.
BatchingInit ==
  /\ cfgScreenshot = FALSE
  /\ cfgScreenshotAlive = FALSE
  /\ cfgExtractInfo = FALSE
  /\ InitPool({}, FALSE)
  /\ InitCallers(1..ProbeConcurrency)
  /\ InitPipeline(1..ProbeConcurrency, {[d \in 1..n |-> FALSE] : n \in 0..MaxTotal})

BatchingNext ==
  \/ MainSend
  \/ MainCloseDomains
  \/ MainWgWait
  \/ MainCloseResult
  \/ MainWaitDone
  \/ MainWaitProgress
  \/ MainSummary
  \/ MainFormat
  \/ \E c \in Probers : ProbeTake(c)
  \/ \E c \in Probers : ProbeExit(c)
  \/ \E c \in Probers : HttpsAttempt(c, 200, FALSE, TRUE)
  \/ \E c \in Probers : Emit(c)
  \/ BatchRecv
  \/ BatchSend
  \/ BatchEnd
  \/ BatchCloseDone
  \/ AggRecv
  \/ AggStep
  \/ AggUnlock
  \/ AggExit
  \/ ProgressReturn

BatchingSpec == BatchingInit /\ [][BatchingNext]_vars


\* =================================================================== claims
\* The number of entries of seq that belong to domain d.
EntriesOf(seq, d) == Cardinality({i \in 1..Len(seq) : seq[i].dom = d})

\* main has passed <-doneChan and <-progressDone and stands at, or is past,
\* the call of PrintSummary.
AtHandOff == mpc \in {"summary", "format", "done"}

\* main has made its first read of the counters and the result list.
MainHasRead == mpc \in {"format", "done"}

\* C1: when main hands allResults to PrintSummary and the formatters, the
\* list holds exactly one entry for every input domain, and so does the list
\* the formatters were called with.
C1_Original ==
  /\ AtHandOff => \A d \in Domains : EntriesOf(allResults, d) = 1
  /\ mpc = "done" => \A d \in Domains : EntriesOf(handedOff, d) = 1

\* C2: once main has read the counters and the result list, the aggregator
\* goroutine writes none of them again.
C2_Original ==
  [][MainHasRead =>
       UNCHANGED <<allResults, alive, dead, screenshotCount, pageTypeCount>>]_vars

\* The call of CheckDomain for domain d has returned: the domain was taken
\* from domainChan and no probe worker is checking it.
Returned(d) ==
  /\ d <= sent
  /\ \A i \in 1..Len(domainChan) : domainChan[i] # d
  /\ \A c \in Probers : pdom[c] # d

\* The number of Results sent on resultChan for the domains.
RECURSIVE EmittedUpTo(_)
EmittedUpTo(d) == IF d = 0 THEN 0 ELSE Len(emitted[d]) + EmittedUpTo(d - 1)

\* The requests CheckDomain may make for a domain, and the request whose
\* Result it emits: the given URL alone for a scheme-qualified input,
\* otherwise HTTPS, followed by HTTP exactly when HTTPS failed in transport.
RightResult(d, res) ==
  /\ res.dom = d
  /\ res.url = requests[d][Len(requests[d])]
  /\ IF qualified[d]
       THEN requests[d] = <<"given">>
       ELSE \/ requests[d] = <<"https">> /\ res.status # 0
            \/ requests[d] = <<"https", "http">>

\* C3: every call of CheckDomain sends exactly one Result on resultChan, the
\* Result of its last request: of the given URL for a scheme-qualified input,
\* of the HTTPS request when that got a response, and of the HTTP request
\* when HTTPS failed, whether HTTP then answers or fails too. No call sends
\* a second Result, and the Result of a failed HTTPS request is never sent.
C3_OneResultPerCall ==
  /\ Len(resultChan) = EmittedUpTo(NumDomains)
  /\ \A d \in Domains :
       /\ Len(emitted[d]) <= 1
       /\ Returned(d) => Len(emitted[d]) = 1
       /\ emitted[d] # <<>> => Returned(d) /\ RightResult(d, emitted[d][1])
       /\ \A i \in 1..Len(resultChan) :
            resultChan[i].dom = d => resultChan[i] = emitted[d][1]

\* Calls of CheckDomain have returned in two outcomes: a scheme-qualified
\* input, and an input whose HTTPS request failed and whose HTTP request got a
\* response, after a Submit for the HTTPS URL that ended in a recovered panic.
C3_Witness ==
  \E d1, d2 \in Domains :
    /\ Returned(d1) /\ qualified[d1] /\ Len(emitted[d1]) = 1
    /\ Returned(d2) /\ requests[d2] = <<"https", "http">>
    /\ Len(emitted[d2]) = 1 /\ emitted[d2][1].status = 200
    /\ outcome[TaskId(d2, "https")] = "panic"

\* The values a task's future yields: those sent on its result channel.
Yielded(t) == reply[t]

\* The task is buffered in p.tasks.
Buffered(t) == \E i \in 1..Len(tasks) : tasks[i] = t

\* A worker has dequeued the task and is still in its retry loop.
InProgress(t) == \E w \in ShotWorkers : wpc[w] # "done" /\ wtask[w] = t

\* Nobody is blocked sending on a result channel.
NoSenderBlocked ==
  /\ \A w \in ShotWorkers : wpc[w] # "blocked"
  /\ \A c \in Probers : ppc[c] # "blocked"

\* C4: every task's result channel is sent on exactly once, by Submit when it
\* abandons the task (pool closed, timeout, recovered panic) or by the worker
\* that dequeued it, never by both and never twice, and no send on it blocks.
C4_ExactlyOneReply ==
  /\ NoSenderBlocked
  /\ \A t \in Tasks :
       /\ writes[t] <= 1
       /\ Cardinality(writers[t]) <= 1
       /\ Len(reply[t]) <= ReplyCap
       /\ handled[t] <= 1
       /\ outcome[t] \in {"closed", "timeout", "panic"} =>
            /\ writes[t] = 1
            /\ writers[t] = {"submit"}
            /\ handled[t] = 0
       /\ outcome[t] = "queued" =>
            /\ writers[t] \subseteq {"worker"}
            /\ writes[t] = 1 <=> (handled[t] = 1 /\ ~InProgress(t))
       /\ outcome[t] = "none" => writes[t] = 0

\* A task answered by Submit, one answered by a worker with a path and one
\* answered by a worker after its last failed attempt.
C4_Witness ==
  \E t1, t2, t3 \in Tasks :
    /\ writers[t1] = {"submit"}
    /\ writers[t2] = {"worker"} /\ reply[t2] = <<Path>>
    /\ writers[t3] = {"worker"} /\ reply[t3] = <<Empty>>

\* C5: every Submit call returns, and the future it returned yields a value:
\* it is a channel that holds a value, or whose task is buffered or in the
\* hands of a worker.
C5_Original ==
  /\ NoSenderBlocked
  /\ \A t \in Tasks :
       fut[t] # "none" =>
         /\ fut[t] = "chan"
         /\ Yielded(t) # <<>> \/ Buffered(t) \/ InProgress(t)

\* C6: a task whose Submit timed out is never buffered and never dequeued,
\* and its future holds the empty string when Submit returns.
C6_TimeoutAbandons ==
  \A t \in Tasks :
    outcome[t] = "timeout" =>
      /\ ~Buffered(t)
      /\ ~InProgress(t)
      /\ handled[t] = 0
      /\ fut[t] = "chan"
      /\ Yielded(t) = <<Empty>>

\* A Submit timed out while the queue was full and every worker was busy.
C6_Witness ==
  /\ \E t \in Tasks : outcome[t] = "timeout" /\ fut[t] = "chan"
  /\ Len(tasks) = QueueCap
  /\ \A w \in ShotWorkers : wpc[w] = "attempt"

\* C7: a Submit call that begins when p.closed is set buffers nothing, does
\* not panic and returns a channel holding the empty string; its task is
\* never dequeued.
C7_SubmitAfterStop ==
  /\ [](\A t \in Tasks : outcome[t] = "closed" =>
          ~Buffered(t) /\ handled[t] = 0 /\ fut[t] = "chan" /\ Yielded(t) = <<Empty>>)
  /\ [][(closed /\ calls' = calls + 1) =>
          /\ outcome'[calls'] = "closed"
          /\ fut'[calls'] = "chan"
          /\ reply'[calls'] = <<Empty>>
          /\ tasks' = tasks
          /\ panics' = panics]_vars

\* A Submit call made after Stop returned the resolved future.
C7_Witness ==
  \E t \in Tasks : closed /\ outcome[t] = "closed" /\ fut[t] = "chan" /\ reply[t] = <<Empty>>

C9_StopTwice ==
  /\ closeCount <= 1
  /\ panics = {}
  /\ \A s \in Stoppers : stpc[s] # "panicked"
  /\ \A s \in Stoppers : stpc[s] \in {"wait", "returned"} => closeCount = 1 /\ tasksClosed
  /\ ~(ENABLED PoolNext) => \A s \in Stoppers : stpc[s] = "returned"

\* Both calls of Stop have returned; the signal handler's call overlapped
\* main's or followed it.
C9_Witness ==
  /\ \A s \in Stoppers : stpc[s] = "returned"
  /\ closeCount = 1

\* C10: when a call of Stop has returned, p.tasks is empty, every worker has
\* exited and every task that was queued has been dequeued once and answered,
\* the tasks buffered at the close included.
C10_StopDrains ==
  \A s \in Stoppers :
    stpc[s] = "returned" =>
      /\ tasks = <<>>
      /\ \A w \in ShotWorkers : wpc[w] = "done"
      /\ \A t \in Tasks : outcome[t] = "queued" => handled[t] = 1 /\ writes[t] = 1

\* Stop returned after closing a queue that still held tasks.
C10_Witness ==
  /\ \E s \in Stoppers : stpc[s] = "returned"
  /\ atClose > 0
  /\ \A t \in Tasks : outcome[t] = "queued" => writes[t] = 1

\* Every probe worker has returned (wg.Wait has been passed).
ProbersDone == \A c \in Probers : ppc[c] = "done"

\* main's call of Stop has returned: the engine is stopped.
EngineStopped ==
  /\ stpc["main"] = "returned"
  /\ tasksClosed
  /\ \A w \in ShotWorkers : wpc[w] = "done"

\* resultChan is closed and drained, and main has received from doneChan
\* and from progressDone.
ChannelsDrained ==
  /\ resultClosed /\ resultChan = <<>> /\ bpc \in {"closeDone", "done"}
  /\ doneClosed /\ progressDone

\* main has run cleanupChromeProcesses.
MainCleaned == "main" \in cleanups

\* C11: on normal completion with a screenshot mode, main goes through its
\* steps in order and skips none: the probe workers have finished before
\* Stop is called, Stop has returned before resultChan is closed, resultChan
\* is drained and doneChan and progressDone are received before the cleanup
\* of stray browser processes, and the cleanup has run before PrintSummary
\* and the formatters are called.
C11_OrderedShutdown ==
  /\ mpc \in {"stop", "closeResult", "waitDone", "waitProgress", "cleanup",
               "summary", "format", "done"} => ProbersDone
  /\ mpc \in {"closeResult", "waitDone", "waitProgress", "cleanup",
               "summary", "format", "done"} => EngineStopped
  /\ mpc \in {"waitDone", "waitProgress", "cleanup", "summary", "format", "done"} =>
       resultClosed
  /\ mpc \in {"cleanup", "summary", "format", "done"} => ChannelsDrained
  /\ mpc \in {"summary", "format", "done"} => MainCleaned
  /\ MainCleaned => ChannelsDrained /\ EngineStopped /\ ProbersDone
  /\ resultClosed => EngineStopped /\ ProbersDone
  /\ stpc["main"] # "idle" => ProbersDone
  /\ summary # <<>> \/ handedOff # <<>> => MainCleaned

\* main has completed a run in which the engine handled a task, and has
\* called the formatters after the cleanup.
C11_Witness ==
  /\ mpc = "done"
  /\ PoolExists
  /\ cleanups = {"main"}
  /\ summary # <<>>
  /\ \E t \in Tasks : outcome[t] = "queued" /\ handled[t] = 1

\* Every task that Submit buffered has been dequeued and answered.
AcceptedFinished ==
  /\ tasks = <<>>
  /\ \A t \in Tasks : outcome[t] = "queued" => handled[t] = 1 /\ writes[t] = 1

SomePanic == panics # {} \/ "recover" \in cleanups

\* C13: when the process has ended after a panic in any goroutine (main, a
\* probe worker, the batching or the aggregator goroutine, a screenshot
\* worker), cleanupChromeProcesses has been run.
C13_Original == (exited /\ SomePanic) => cleanups # {}

\* The probe worker has left the position it was at, and not because the
\* process ended: the request made there, or the send on resultChan, has been
\* executed.
Leaves(c, pos) == ppc[c] = pos /\ ppc'[c] \notin {pos, "exited"}

\* After its request the probe worker is on its way to the send on
\* resultChan, through Submit or not, and makes no other request.
HeadsForEmit(c) ==
  \/ ppc'[c] = "emit"
  \/ ppc'[c] \in {"sub_check", "sub_select", "blocked"} /\ pcont'[c] = "emit"

\* C14: for a domain without a scheme the first request is the HTTPS one;
\* when it gets a response, whatever the status code, CheckDomain makes no
\* HTTP request and sends the Result of that response: target https://domain
\* and the status of the response.
C14_HttpsResponseIsFinal ==
  /\ [](\A d \in Domains :
          (~qualified[d] /\ requests[d] # <<>>) => requests[d][1] = "https")
  /\ [][\A c \in Probers :
          (Leaves(c, "https") /\ pres'[c].status # 0) =>
             /\ pres'[c].url = "https"
             /\ pres'[c].dom = pdom[c]
             /\ requests'[pdom[c]] = <<"https">>
             /\ HeadsForEmit(c)]_vars
  /\ [][\A c \in Probers :
          Leaves(c, "emit") =>
             /\ emitted'[pdom[c]] = <<pres[c]>>
             /\ requests' = requests]_vars
  /\ [](\A c \in Probers :
          (ppc[c] = "emit" /\ pres[c].url = "https") =>
             pres[c].status # 0 /\ requests[pdom[c]] = <<"https">>)
  /\ [](\A d \in Domains :
          (emitted[d] # <<>> /\ requests[d] = <<"https">>) =>
             emitted[d][1].url = "https" /\ emitted[d][1].status # 0)

\* An HTTPS request got a response with a status that is not 2xx, and its
\* Result was sent without an HTTP request.
C14_Witness ==
  \E d \in Domains :
    /\ ~qualified[d]
    /\ Returned(d)
    /\ requests[d] = <<"https">>
    /\ Len(emitted[d]) = 1
    /\ emitted[d][1].url = "https" /\ emitted[d][1].status = 503

\* After the failed HTTPS request the probe worker is on its way to
\* checkSingleDomain, through Submit or not.
HeadsForHttp(c) ==
  \/ ppc'[c] = "single"
  \/ ppc'[c] \in {"sub_check", "sub_select", "blocked"} /\ pcont'[c] = "single"

\* C15: for a domain without a scheme whose HTTPS request fails in
\* transport, CheckDomain goes on to exactly one HTTP request and sends the
\* Result of that request, with target http://domain, whether it got a
\* response or failed too; when both failed the Result is not alive and its
\* status label is the unreachable one.
C15_HttpFallback ==
  /\ [][\A c \in Probers :
          (Leaves(c, "https") /\ pres'[c].status = 0) => HeadsForHttp(c)]_vars
  /\ [][\A c \in Probers :
          (Leaves(c, "single") /\ ~qualified[pdom[c]]) =>
             /\ requests[pdom[c]] = <<"https">>
             /\ requests'[pdom[c]] = <<"https", "http">>
             /\ pres[c].url = "https" /\ pres[c].status = 0
             /\ pres'[c].url = "http"
             /\ HeadsForEmit(c)]_vars
  /\ [](\A d \in Domains :
          ~qualified[d] => requests[d] \in {<<>>, <<"https">>, <<"https", "http">>})
  /\ [](\A d \in Domains :
          (~qualified[d] /\ emitted[d] # <<>>) =>
             /\ Len(emitted[d]) = 1
             /\ emitted[d][1].url = "https" => emitted[d][1].status # 0
             /\ requests[d] = <<"https", "http">> =>
                  /\ emitted[d][1].url = "http"
                  /\ emitted[d][1].status = 0 =>
                       ~emitted[d][1].alive /\ emitted[d][1].text = "Unreachable")

\* Both requests for a domain failed in transport, with a screenshot task
\* submitted for each URL, and the Result sent is the one of http://domain.
C15_Witness ==
  \E d \in Domains :
    /\ ~qualified[d]
    /\ Returned(d)
    /\ requests[d] = <<"https", "http">>
    /\ Len(emitted[d]) = 1
    /\ emitted[d][1].url = "http" /\ emitted[d][1].status = 0
    /\ outcome[TaskId(d, "https")] # "none"
    /\ outcome[TaskId(d, "http")] # "none"

\* C16: for an input that starts with http:// or https:// CheckDomain makes
\* exactly one request, against the input as given, sends the Result of that
\* request and never requests the other scheme.
C16_SchemeGivenOneRequest ==
  /\ [](\A d \in Domains : qualified[d] => requests[d] \in {<<>>, <<"given">>})
  /\ [](\A c \in Probers :
          (pdom[c] # 0 /\ qualified[pdom[c]]) => ppc[c] # "https")
  /\ [][\A c \in Probers :
          (Leaves(c, "single") /\ qualified[pdom[c]]) =>
             /\ requests[pdom[c]] = <<>>
             /\ requests'[pdom[c]] = <<"given">>
             /\ pres'[c].url = "given"
             /\ HeadsForEmit(c)]_vars
  /\ [](\A d \in Domains :
          (qualified[d] /\ Returned(d)) =>
             /\ requests[d] = <<"given">>
             /\ Len(emitted[d]) = 1
             /\ emitted[d][1].url = "given")

\* Two inputs with a scheme have been checked, one request each: one failed
\* in transport, the other got a response of 404.
C16_Witness ==
  \E d1, d2 \in Domains :
    /\ qualified[d1] /\ Returned(d1) /\ requests[d1] = <<"given">>
    /\ emitted[d1] # <<>> /\ emitted[d1][1].status = 0
    /\ qualified[d2] /\ Returned(d2) /\ requests[d2] = <<"given">>
    /\ emitted[d2] # <<>> /\ emitted[d2][1].status = 404

\* The Results the probe workers hold after a request and the Results they
\* have sent on resultChan.
BuiltResults ==
  {pres[c] : c \in {p \in Probers : pres[p].dom # 0}}
    \cup UNION {{emitted[d][i] : i \in 1..Len(emitted[d])} : d \in Domains}

\* The status table of the README: the label shown for a status code.
LabelInTable(code) ==
  IF code = 200 THEN "Alive"
  ELSE IF code \in {301, 302} THEN "Redirect"
  ELSE IF code = 403 THEN "Forbidden"
  ELSE IF code = 404 THEN "NotFound"
  ELSE IF code = 500 THEN "ServerError"
  ELSE IF code = 502 THEN "GatewayError"
  ELSE IF code = 503 THEN "Unavailable"
  ELSE IF code < 400 THEN "Alive"
  ELSE "Unreachable"

\* C17: the status label of every Result built from a response is the one
\* the table gives for its status code: 200 Alive, 301 and 302 Redirect, 403
\* Forbidden, 404 NotFound, 500 ServerError, 502 GatewayError, 503
\* Unavailable, any other code below 400 Alive, any other code from 400 on
\* Unreachable.
C17_StatusLabels ==
  \A res \in BuiltResults :
    res.status # 0 =>
      /\ res.status \in StatusCodes
      /\ res.text = LabelInTable(res.status)

\* Results have been sent for a code the table names and for codes on both
\* sides of 400 that it does not name.
C17_Witness ==
  /\ \E res \in BuiltResults : res.status = 302 /\ res.text = "Redirect"
  /\ \E res \in BuiltResults :
       \/ res.status = 399 /\ res.text = "Alive"
       \/ res.status = 400 /\ res.text = "Unreachable"

\* C18: a Result is alive exactly when its request got a response and the
\* status code of the response is below 400; the flag is set when the Result
\* is built and is the same when the Result is sent on resultChan.
C18_AliveIffBelow400 ==
  /\ [](\A res \in BuiltResults :
          res.alive <=> (res.status # 0 /\ res.status < 400))
  /\ [][\A c \in Probers :
          (Leaves(c, "https") \/ Leaves(c, "single")) =>
             (pres'[c].alive <=> (pres'[c].status # 0 /\ pres'[c].status < 400))]_vars
  /\ [][\A c \in Probers :
          (pres[c].dom # 0 /\ pres'[c].alive # pres[c].alive) =>
             (Leaves(c, "single") \/ Leaves(c, "emit"))]_vars
  /\ [][\A c \in Probers :
          Leaves(c, "emit") =>
             /\ emitted'[pdom[c]] = Append(emitted[pdom[c]], pres[c])
             /\ resultChan' = Append(resultChan, pres[c])]_vars
  /\ [][\A d \in Domains :
          \A i \in 1..Len(emitted[d]) : emitted'[d][i] = emitted[d][i]]_vars

\* Results have been sent for a response just below 400 (alive) and for a
\* transport error (not alive).
C18_Witness ==
  \E d1, d2 \in Domains :
    /\ Returned(d1) /\ emitted[d1] # <<>>
    /\ emitted[d1][1].alive /\ emitted[d1][1].status = 399
    /\ Returned(d2) /\ emitted[d2] # <<>>
    /\ ~emitted[d2][1].alive /\ emitted[d2][1].status = 0

\* The next step of the probe worker can be taken; only Submit waiting for
\* the read lock while Stop holds the write lock stands for a moment.
ProbeCanGoOn(c) ==
  \/ ppc[c] = "sub_check" /\ mutex # "free"
  \/ ENABLED (\/ \E r \in HttpOutcomes : SingleAttempt(c, r, TRUE, TRUE)
              \/ SubmitEnter(c)
              \/ SubmitSend(c)
              \/ SubmitTimeout(c)
              \/ SubmitPanic(c)
              \/ Emit(c))

\* C19: a probe whose last request fails in transport does not panic and
\* does not stop short of its send: it sends a Result with Status 0, Alive
\* false, the unreachable status label and a Message that is not empty, the
\* text of the transport error; CheckDomain then returns.
C19_FailedProbeYieldsResult ==
  /\ [](panics = {})
  /\ [](\A res \in BuiltResults :
          res.status = 0 =>
            /\ ~res.alive
            /\ res.text = "Unreachable"
            /\ res.msg # ""
            /\ res.msg = "Get " \o res.url \o ": error"
            /\ ~res.page)
  /\ [][\A c \in Probers :
          (Leaves(c, "single") /\ pres'[c].status = 0) => HeadsForEmit(c)]_vars
  /\ [][\A c \in Probers :
          (Leaves(c, "emit") /\ pres[c].status = 0) =>
             /\ resultChan' = Append(resultChan, pres[c])
             /\ ppc'[c] = "loop"]_vars
  /\ [](\A c \in Probers :
          (pres[c].dom # 0 /\ pres[c].status = 0 /\ ppc[c] # "exited") =>
             /\ ppc[c] \in {"single", "sub_check", "sub_select", "emit"}
             /\ ProbeCanGoOn(c))

\* A request against a given URL failed in transport in -screenshot mode: a
\* screenshot task was submitted, the Result was sent with the error text
\* and the call returned.
C19_Witness ==
  \E d \in Domains :
    /\ Returned(d)
    /\ requests[d] = <<"given">>
    /\ Len(emitted[d]) = 1
    /\ emitted[d][1].status = 0 /\ emitted[d][1].msg # "" /\ emitted[d][1].shot
    /\ outcome[TaskId(d, "given")] # "none"

\* -screenshot-alive without -screenshot.
AliveOnly == cfgScreenshotAlive /\ ~cfgScreenshot

\* The probe worker is inside Submit.
InSubmit(c) == ppc[c] \in {"sub_check", "sub_select", "blocked"}

\* Submit has been called for the task.
Submitted(t) == outcome[t] # "none" \/ \E c \in Probers : InSubmit(c) /\ ptask[c] = t

\* C20: in alive-only screenshot mode a Result that is not alive leads to no
\* call of Submit and is sent with an empty Screenshot field; Submit is
\* called only for the URL of a Result that is alive.
C20_AliveOnlySkipsDead ==
  /\ [](AliveOnly =>
          /\ \A res \in BuiltResults : ~res.alive => ~res.shot
          /\ \A c \in Probers : InSubmit(c) => pres[c].alive /\ pres[c].shot
          /\ \A t \in Tasks :
               Submitted(t) =>
                 \E res \in BuiltResults : TaskId(res.dom, res.url) = t /\ res.alive
          /\ \A t \in Tasks : ~Submitted(t) => writes[t] = 0 /\ handled[t] = 0)
  /\ [][\A c \in Probers :
          (AliveOnly /\ (Leaves(c, "https") \/ Leaves(c, "single")) /\ ~pres'[c].alive) =>
             /\ ~InSubmit(c)'
             /\ ~pres'[c].shot
             /\ \A t \in Tasks : Submitted(t)' = Submitted(t)]_vars

\* In alive-only mode a Result of a 404 response was sent without a
\* screenshot and without a task, and a Result of a 200 response with both.
C20_Witness ==
  /\ AliveOnly
  /\ \E d1, d2 \in Domains :
       /\ Returned(d1) /\ emitted[d1] # <<>>
       /\ emitted[d1][1].status = 404 /\ ~emitted[d1][1].shot
       /\ ~Submitted(TaskId(d1, emitted[d1][1].url))
       /\ Returned(d2) /\ emitted[d2] # <<>>
       /\ emitted[d2][1].status = 200 /\ emitted[d2][1].shot
       /\ outcome[TaskId(d2, emitted[d2][1].url)] = "queued"

\* ---------------------------------------------------------------------
\* C21

\* C21: the screenshot counter moves only when a result is recorded, and
\* then by exactly one or not at all: in alive-only mode it goes up by one
\* exactly for a result that has a Screenshot and is alive, in
\* all-screenshots mode exactly for a result that has a Screenshot, and for
\* a result without a Screenshot it stays as it is.
C21_ScreenshotCounter ==
  [][/\ Len(allResults') = Len(allResults) => screenshotCount' = screenshotCount
     /\ Len(allResults') = Len(allResults) + 1 =>
          LET result == allResults'[Len(allResults')]
              counted == screenshotCount' = screenshotCount + 1
              same == screenshotCount' = screenshotCount
          IN /\ counted \/ same
             /\ ~result.shot => same
             /\ (cfgScreenshotAlive /\ ~cfgScreenshot) =>
                   (counted <=> result.shot /\ result.alive)
             /\ (cfgScreenshot /\ ~cfgScreenshotAlive) =>
                   (counted <=> result.shot)]_vars

\* In alive-only mode two results were recorded, a dead one without a
\* Screenshot and an alive one with a Screenshot, and the counter is 1.
C21_Witness ==
  /\ cfgScreenshotAlive /\ ~cfgScreenshot
  /\ Len(allResults) = 2
  /\ \E i, j \in 1..2 :
       /\ ~allResults[i].alive /\ ~allResults[i].shot
       /\ allResults[j].alive /\ allResults[j].shot
  /\ screenshotCount = 1


\* ---------------------------------------------------------------------
\* C22

\* C22: for every input list the deduplicated list has no entry twice, holds
\* exactly one entry for each host named in the input, whether an entry names
\* it alone or behind a scheme, and lists the hosts in the order in which the
\* input first names them.
C22_Original ==
  (call # NoCall /\ call.fn = "uniqueDomains" /\ call.done) =>
    LET list == call.ret
        input == call.args
        HostsOf(e) == {e[i] : i \in 1..Len(e)} \cap Hosts
        First(seq, h) == CHOOSE i \in 1..Len(seq) :
                           /\ h \in HostsOf(seq[i])
                           /\ \A j \in 1..(i - 1) : h \notin HostsOf(seq[j])
        named == UNION {HostsOf(input[i]) : i \in 1..Len(input)}
    IN /\ \A i, j \in 1..Len(list) : list[i] = list[j] => i = j
       /\ \A h \in named :
            Cardinality({i \in 1..Len(list) : h \in HostsOf(list[i])}) = 1
       /\ \A h1, h2 \in named :
            First(input, h1) < First(input, h2) => First(list, h1) < First(list, h2)

\* ---------------------------------------------------------------------
\* C23

\* calculateOptimalScreenshotConcurrency has returned.
SizingDone ==
  call # NoCall /\ call.fn = "calculateOptimalScreenshotConcurrency" /\ call.done

\* C23: for every requested concurrency, every domain count of at least 1,
\* every CPU count and every memory size the worker count returned exceeds
\* neither the requested concurrency (the size of the probe pool) nor the
\* domain count.
C23_Original ==
  (SizingDone /\ call.args.totalDomains >= 1) =>
     /\ call.ret <= call.args.requestedConcurrency
     /\ call.ret <= call.args.totalDomains

\* ---------------------------------------------------------------------
\* C24

\* C24: the worker count returned is at most 15 for more than 20000 domains,
\* at most 25 for more than 10000 and at most 50 otherwise, for every CPU
\* count, memory size and requested concurrency.
C24_BatchCaps ==
  SizingDone =>
     /\ call.args.totalDomains > 20000 => call.ret <= 15
     /\ call.args.totalDomains > 10000 => call.ret <= 25
     /\ call.ret <= 50

\* 64 CPUs, 64 GB and 100 requested workers: 15 workers for 20001 domains.
C24_Witness ==
  /\ SizingDone
  /\ call.args = [requestedConcurrency |-> 100, totalDomains |-> 20001,
                  numCPU |-> 64, memoryMB |-> 65536]
  /\ call.ret = 15

\* ---------------------------------------------------------------------
\* C25

\* C25: calculateTimeout does not decrease when the concurrency grows: for
\* c1 <= c2 the timeout of c1 is at most that of c2. It is never below 20
\* seconds, which it is for a concurrency of at most 5, and never above 50
\* seconds, which it is for a concurrency above 50.
C25_TimeoutMonotone ==
  (call # NoCall /\ call.fn = "calculateTimeout" /\ call.done) =>
    LET c1 == call.args[1]
        c2 == call.args[2]
        t1 == call.ret[1]
        t2 == call.ret[2]
    IN /\ c1 <= c2 => t1 <= t2
       /\ 20 <= t1 /\ t1 <= 50
       /\ c1 <= 5 <=> t1 = 20
       /\ c1 > 50 <=> t1 = 50

\* The calls for 30 and 31 workers returned 40 and 45 seconds.
C25_Witness ==
  /\ call # NoCall /\ call.fn = "calculateTimeout" /\ call.done
  /\ call.args = <<30, 31>>
  /\ call.ret = <<40, 45>>

\* ---------------------------------------------------------------------
\* C26

\* The retry loop of a task has returned.
RetryDone == call # NoCall /\ call.fn = "retryLoop" /\ call.done

C27_RetryBackoff ==
  RetryDone =>
    LET acc == call.ret.acc
        err(i) == TakeScreenshotIndependent(call.args[i].render, call.args[i].write).err
        firstOk == {i \in 1..(maxRetries + 1) :
                      err(i) = "ok" /\ \A j \in 1..(i - 1) : err(j) = "hard"}
        allHard == \A i \in 1..(maxRetries + 1) : err(i) = "hard"
    IN /\ acc.attempts <= maxRetries + 1
       /\ acc.waits = [i \in 1..(acc.attempts - 1) |-> i * 500]
       /\ \A i \in firstOk :
            /\ acc.attempts = i
            /\ acc.sends = <<Path>>
            /\ acc.ok = 1 /\ acc.failed = 0
       /\ allHard =>
            /\ acc.attempts = maxRetries + 1
            /\ acc.sends = <<Empty>>
            /\ acc.ok = 0 /\ acc.failed = 1
       /\ ~acc.blocked

\* Four attempts failed with another error: sleeps of 500, 1000 and 1500 ms,
\* the empty string as the reply, one failure.
C27_Witness ==
  /\ RetryDone
  /\ \A i \in 1..(maxRetries + 1) : call.args[i] = [render |-> "other", write |-> "failed"]
  /\ call.ret.acc.attempts = 4
  /\ call.ret.acc.waits = <<500, 1000, 1500>>
  /\ call.ret.acc.sends = <<Empty>>
  /\ call.ret.acc.failed = 1 /\ call.ret.acc.ok = 0

\* ---------------------------------------------------------------------
\* C28

\* C28: a probe worker never waits for a screenshot to be rendered. Inside
\* Submit and at its send on resultChan it can always take a step of its own
\* (inside Submit it waits at most for the lock Stop holds and for the
\* bounded select), whatever the screenshot workers do; when Submit returns,
\* however it ended, the worker sets the Screenshot field and goes on to send
\* the Result (or, after a failed HTTPS request, to the HTTP request), and it
\* sends without reading the task's result channel.
C28_ProbeDoesNotWaitForImage ==
  /\ [](\A c \in Probers :
          (InSubmit(c) \/ ppc[c] = "emit") =>
             /\ ppc[c] # "blocked"
             /\ ProbeCanGoOn(c))
  /\ [][\A c \in Probers :
          (Leaves(c, "sub_check") \/ Leaves(c, "sub_select")) =>
             /\ ppc'[c] \in {"sub_select", "emit", "single"}
             /\ ppc'[c] = "emit" => pres'[c].shot
             /\ ppc'[c] = "single" => pres[c].status = 0 /\ requests[pdom[c]] = <<"https">>]_vars
  /\ [][\A c \in Probers :
          (Leaves(c, "emit") /\ pres[c].shot) =>
             /\ resultChan' = Append(resultChan, pres[c])
             /\ reply' = reply /\ handled' = handled]_vars

\* A Result with its Screenshot field set was sent while its task was still
\* in the queue, taken by no worker, and its result channel empty.
C28_Witness ==
  \E d \in Domains :
    /\ emitted[d] # <<>>
    /\ emitted[d][1].shot
    /\ LET t == TaskId(d, emitted[d][1].url)
       IN /\ outcome[t] = "queued"
          /\ handled[t] = 0
          /\ reply[t] = <<>>
          /\ \E i \in 1..Len(tasks) : tasks[i] = t

\* ---------------------------------------------------------------------
\* C29

\* C29: the progress reporter returns in every run: progressDone is closed
\* in the end, and it is closed once, at a moment when the processed counter
\* has reached the total or doneChan is closed; once either holds the
\* reporter can return; main passes its wait on progressDone and ends; and
\* the processed counter never exceeds the total.
C29_ProgressTerminates ==
  /\ <>progressDone
  /\ <>(mpc = "done")
  /\ []((processed >= NumDomains \/ doneClosed) => (progressDone \/ ENABLED ProgressReturn))
  /\ [][progressDone => progressDone']_vars
  /\ [][(~progressDone /\ progressDone') =>
          (processed >= NumDomains \/ doneClosed)]_vars
  /\ [](processed <= NumDomains)

\* The reporter returned at a tick that found every result processed, before
\* doneChan was closed, and main has passed its wait on progressDone.
C29_Witness ==
  /\ progressDone
  /\ processed = NumDomains
  /\ mpc \in {"cleanup", "summary", "format", "done"}

\* ---------------------------------------------------------------------
\* C30

\* C30: whatever the configured concurrency, domainChan is closed only after
\* every domain was sent, and once wg.Wait has returned every domain has been
\* received from the queue and probed once, with one Result sent for it, and
\* every probe worker has left its loop.
C30_Original ==
  /\ domainClosed => sent = NumDomains
  /\ mpc \notin {"send", "wgwait"} =>
       /\ \A d \in Domains :
            /\ Returned(d)
            /\ requests[d] \in {<<"given">>, <<"https">>, <<"https", "http">>}
            /\ Len(emitted[d]) = 1
       /\ \A c \in Probers : ppc[c] = "done"


\* C31: when no positional argument is given, the input file cannot be read,
\* the list of domains is empty after the removal of duplicates, or a
\* screenshot mode is on without any of -excel, -html and -simple-html, the
\* process exits with a code other than 0 and main has created no channel,
\* no worker, no screenshot pool and no signal handler.
C31_EarlyExit ==
  (call.fn = "main" /\ call.done) =>
    LET a == call.args
        lines == IF a.comma THEN a.entries
                 ELSE SelectSeq(a.entries,
                                LAMBDA d : TrimSpace(d) # <<>> /\ Head(TrimSpace(d)) # "#")
    IN (\/ a.NArg < 1
        \/ ~a.comma /\ a.openErr
        \/ Len(UniqueDomains(lines, {}, <<>>)) = 0
        \/ a.shot /\ ~a.outputs)
         => call.ret.exited /\ call.ret.code # 0 /\ call.ret.created = {}
C31_Witness ==
  /\ call.fn = "main" /\ call.done
  /\ call.args.NArg = 1 /\ ~call.args.comma /\ ~call.args.openErr
  /\ call.args.shot /\ call.args.outputs
  /\ call.args.entries = <<<<" ">>, <<"#", "a.com">>>>
  /\ call.ret.exited /\ call.ret.code = 1


\* C32: detectPageType returns the first of Login, AdminPanel, API, Upload, in
\* that order, that has an indicator in the body, and None when none has; a
\* body with a login indicator and an admin indicator is a Login page.
C32_PageTypeOrder ==
  (call.fn = "detectPageType" /\ call.done) =>
    LET body == call.args
        lower == ToLower(body)
        Has(f) == \E i \in 1..Len(body) : lower[i] = f
        order == <<"Login", "AdminPanel", "API", "Upload">>
        matches == [k \in 1..4 |->
                      CASE k = 1 -> Has("sign in") \/ Has("login_form")
                        [] k = 2 -> Has("admin") \/ Has("console")
                        [] k = 3 -> Has("api") \/ Has("json") \/ Has("{\"")
                        [] k = 4 -> Has("upload") \/ Has("multipart/form-data")]
    IN /\ (\A k \in 1..4 : ~matches[k]) <=> call.ret = "None"
       /\ \A k \in 1..4 :
            (matches[k] /\ \A j \in 1..(k - 1) : ~matches[j]) => call.ret = order[k]
C32_Witness ==
  /\ call.fn = "detectPageType" /\ call.done
  /\ call.args = <<"console", "upload", "Sign In">>
  /\ call.ret = "Login"


\* C40: calculateOptimalScreenshotConcurrency returns at least 1 for every
\* number of domains of at least 1, whatever the requested concurrency (0 and
\* negative values too), the number of CPUs and the memory, so that the
\* screenshot pool always has a worker.
C40_AtLeastOneWorker ==
  (/\ call.fn = "calculateOptimalScreenshotConcurrency"
   /\ call.done
   /\ call.args.totalDomains >= 1) => call.ret >= 1
C40_Witness ==
  /\ call.fn = "calculateOptimalScreenshotConcurrency" /\ call.done
  /\ call.args.requestedConcurrency = -1
  /\ call.args.memoryMB = 128
  /\ call.args.totalDomains = 20001
  /\ call.ret = 1


C34_Original ==
  \A d \in Domains : ~(Submitted(TaskId(d, "https")) /\ Submitted(TaskId(d, "http")))


\* ---------------------------------------------------------------------
\* C35

\* C35 as stated: a recorded result has a Screenshot only if its task was
\* accepted into the queue of the pool; when Submit abandons the task the
\* result is recorded without a Screenshot and the counter does not count it.
C35_Original ==
  \A i \in 1..Len(allResults) :
    allResults[i].shot => outcome[TaskId(allResults[i].dom, allResults[i].url)] = "queued"

\* C35: a recorded result has a Screenshot exactly when Submit was called for
\* its URL, and Submit has returned by then, whether it accepted the task or
\* abandoned it: the result of an abandoned task carries the path set in
\* advance like any other.
C35_ScreenshotIffSubmitted ==
  \A i \in 1..Len(allResults) :
    LET t == TaskId(allResults[i].dom, allResults[i].url)
    IN /\ allResults[i].shot <=> outcome[t] # "none"
       /\ \A c \in Probers : ~(InSubmit(c) /\ ptask[c] = t)

\* The result of a task that Submit abandoned after the bounded wait is
\* recorded with its Screenshot and counted.
C35_Witness ==
  /\ cfgScreenshot
  /\ apc # "locked"
  /\ \E i \in 1..Len(allResults) :
       /\ allResults[i].shot
       /\ outcome[TaskId(allResults[i].dom, allResults[i].url)] = "timeout"
  /\ screenshotCount = Len(allResults)
  /\ Len(allResults) = NumDomains


\* ---------------------------------------------------------------------
\* C36

\* C36: whenever the aggregator does not hold resultsMutex, alive + dead is
\* the length of allResults, alive being the number of results recorded with
\* Alive set and dead the number of the others; a step that records a result
\* increments exactly one of the two counters, alive for a result with Alive
\* set and dead for one without, and no other step changes them.
C36_AliveDeadCount ==
  /\ [](apc # "locked" =>
          /\ alive + dead = Len(allResults)
          /\ alive = Cardinality({i \in 1..Len(allResults) : allResults[i].alive})
          /\ dead = Cardinality({i \in 1..Len(allResults) : ~allResults[i].alive}))
  /\ [][IF Len(allResults') = Len(allResults) + 1
          THEN IF allResults'[Len(allResults')].alive
                 THEN alive' = alive + 1 /\ dead' = dead
                 ELSE alive' = alive /\ dead' = dead + 1
          ELSE alive' = alive /\ dead' = dead /\ allResults' = allResults]_vars

\* The lock is free and an alive and a dead result are recorded.
C36_Witness ==
  /\ apc = "recv"
  /\ Len(allResults) = 2
  /\ alive = 1 /\ dead = 1
  /\ allResults[1].alive # allResults[2].alive


\* ---------------------------------------------------------------------
\* C37

\* C37: in every state of the pool successCount + failureCount is at most
\* totalCount; a task is dequeued at most once and totalCount is the number
\* of tasks dequeued; the tasks counted in totalCount but in neither of the
\* other two are those a worker is still working on, and a step that ends a
\* task increments exactly one of successCount and failureCount, by one;
\* once a call of Stop has returned, successCount + failureCount, totalCount
\* and the number of tasks accepted into the queue are the same.
C37_PoolCounters ==
  /\ [](/\ successCount + failureCount <= totalCount
        /\ \A t \in Tasks : handled[t] <= 1
        /\ totalCount = Cardinality({t \in Tasks : handled[t] = 1})
        /\ totalCount - (successCount + failureCount)
             = Cardinality({w \in ShotWorkers : wpc[w] = "attempt"}))
  /\ [][/\ totalCount' \in {totalCount, totalCount + 1}
        /\ successCount' >= successCount
        /\ failureCount' >= failureCount
        /\ successCount' + failureCount' <= successCount + failureCount + 1]_vars
  /\ []((\E s \in Stoppers : stpc[s] = "returned") =>
          /\ successCount + failureCount = totalCount
          /\ totalCount = Cardinality({t \in Tasks : outcome[t] = "queued"}))

\* Stop has returned; a task succeeded, a task failed, and a call of Submit
\* gave up on a full queue.
C37_Witness ==
  /\ \E s \in Stoppers : stpc[s] = "returned"
  /\ successCount >= 1
  /\ failureCount >= 1
  /\ \E t \in Tasks : outcome[t] \in {"timeout", "closed", "panic"}


\* ---------------------------------------------------------------------
\* C38

\* C38: every batch the batching goroutine sends holds at least one and at
\* most batchSize results; every result received from resultChan is in
\* exactly one place: the batch being filled, a batch in resultBatchChan, the
\* batch the aggregator works on, or allResults; the batching goroutine
\* never finds resultBatchChan full when it has a batch to send, whether or
\* not the aggregator has received any (so the number of batches is at most
\* totalDomains/batchSize + 1), and a probe worker never finds resultChan
\* full; when the range over resultChan ends no result is left to send.
C38_BatchesFit ==
  /\ [](\A i \in 1..Len(resultBatchChan) :
           Len(resultBatchChan[i]) \in 1..batchSize)
  /\ [](Len(resultBatch) <= batchSize /\ Len(resultBatchChan) <= BatchChanCap)
  /\ [](LET Flat(seqs) == UNION {{seqs[i][j].dom : j \in 1..Len(seqs[i])} :
                                   i \in 1..Len(seqs)}
            RECURSIVE Size(_)
            Size(seqs) == IF seqs = <<>> THEN 0 ELSE Len(Head(seqs)) + Size(Tail(seqs))
            held == resultBatchChan \o <<resultBatch, curBatch, allResults>>
        IN /\ Cardinality(Flat(held)) = processed
           /\ Size(held) = processed)
  /\ [](bpc = "send" => resultBatch # <<>> /\ Len(resultBatchChan) < BatchChanCap)
  /\ []((bpc = "recv" /\ resultChan = <<>> /\ resultClosed) => resultBatch = <<>>)
  /\ [](\A c \in Probers : ppc[c] = "emit" => Len(resultChan) < ResultChanCap)

\* Eleven domains: the batch of ten and the batch of one are both in
\* resultBatchChan, which is full, and the aggregator has received nothing.
C38_Witness ==
  /\ TotalDomains = batchSize + 1
  /\ Len(resultBatchChan) = 2
  /\ Len(resultBatchChan[1]) = batchSize
  /\ Len(resultBatchChan[2]) = 1
  /\ BatchChanCap = 2
  /\ allResults = <<>> /\ curBatch = <<>>


\* ---------------------------------------------------------------------
\* C39

\* C39: with every HTTP request and every render attempt ending, under fair
\* scheduling main returns from wg.Wait, from ScreenshotPool.Stop, from
\* <-doneChan and from <-progressDone, in that order, and reaches the
\* formatters; until then some goroutine can always take a step (the probe
\* workers, the screenshot workers, the batching goroutine and the
\* aggregator never all wait for each other).
C39_RunReachesHandOff ==
  /\ <>(/\ mpc = "done"
        /\ stpc["main"] = "returned"
        /\ doneClosed
        /\ progressDone)
  /\ [](mpc # "done" => ENABLED RunNext)
  /\ [][mpc' # mpc =>
          <<mpc, mpc'>> \in {<<"send", "wgwait">>, <<"wgwait", "stop">>,
                             <<"stop", "closeResult">>, <<"closeResult", "waitDone">>,
                             <<"waitDone", "waitProgress">>, <<"waitProgress", "cleanup">>,
                             <<"cleanup", "summary">>, <<"summary", "format">>,
                             <<"format", "done">>}]_vars
  /\ [][/\ (mpc = "wgwait" /\ mpc' # mpc) => \A c \in Probers : ppc[c] = "done"
        /\ (mpc = "stop" /\ mpc' # mpc) => \A w \in ShotWorkers : wpc[w] = "done"
        /\ (mpc = "waitDone" /\ mpc' # mpc) => doneClosed
        /\ (mpc = "waitProgress" /\ mpc' # mpc) => progressDone]_vars

\* main is at the formatters after a run in which a call of Submit gave up
\* on the full queue and a screenshot task failed after its four attempts.
C39_Witness ==
  /\ mpc = "done"
  /\ handedOff # <<>>
  /\ \E t \in Tasks : outcome[t] = "timeout"
  /\ failureCount >= 1
  /\ Len(allResults) = NumDomains

====
